---- MODULE Spec2Model ----
(***************************************************************************)
(* Model of the streaming consumers of the pawa front end:                 *)
(*   - StreamingChatUI.handleSendMessage (src/src/components/              *)
(*     StreamingChatUI.tsx), the read loop that turns the chunks of a      *)
(*     response body into thinking/content/tool state of the component;    *)
(*   - chatApi.streamMessage (src/unnamed/part_000), the callback based    *)
(*     consumer of the /chat/stream endpoint.                              *)
(* Wire text is modelled as TLA+ strings (ASCII, one byte per character,   *)
(* so TextDecoder.decode maps a chunk of bytes to the same characters).    *)
(***************************************************************************)
EXTENDS Integers, Sequences, FiniteSets, TLC

(***************************************************************************)
(* Bounds of the model.                                                    *)
(***************************************************************************)
\* longest response body, in lines
MaxLines == 3
\* largest chunk the transport delivers short of "everything that is left"
MaxChunk == 2
\* conversations ever created
MaxConvs == 2
\* calls of ChatInterface.handleSend
MaxTurns == 2
\* longest list of shortcuts registered
MaxShortcuts == 2
\* messages in the conversation store, for direct calls of addMessage
MaxMsgs == 3

(***************************************************************************)
(* JavaScript string primitives used by the consumers.                     *)
(***************************************************************************)
\* the value of a missing property; `x += undefined` appends this text
undefined == "undefined"

\* String.prototype.startsWith
startsWith(s, p) == Len(s) >= Len(p) /\ SubSeq(s, 1, Len(p)) = p

\* String.prototype.slice(n), n >= 0
slice(s, n) == IF n >= Len(s) THEN "" ELSE SubSeq(s, n + 1, Len(s))

\* character at 1-based index i
charAt(s, i) == SubSeq(s, i, i)

\* first index >= i at which character c occurs in s, 0 when there is none
RECURSIVE indexOf(_, _, _)
indexOf(s, c, i) ==
  IF i > Len(s) THEN 0
  ELSE IF charAt(s, i) = c THEN i
  ELSE indexOf(s, c, i + 1)

\* String.prototype.split('\n'): always at least one segment
RECURSIVE split(_)
split(s) ==
  LET i == indexOf(s, "\n", 1)
  IN  IF i = 0 THEN <<s>>
      ELSE <<SubSeq(s, 1, i - 1)>> \o split(slice(s, i))

isSpace(c) == c \in {" ", "\t", "\n", "\r"}

\* String.prototype.trim
RECURSIVE trimStart(_)
trimStart(s) ==
  IF Len(s) > 0 /\ isSpace(charAt(s, 1)) THEN trimStart(slice(s, 1)) ELSE s

RECURSIVE trimEnd(_)
trimEnd(s) ==
  IF Len(s) > 0 /\ isSpace(charAt(s, Len(s)))
  THEN trimEnd(SubSeq(s, 1, Len(s) - 1)) ELSE s

trim(s) == trimEnd(trimStart(s))

(***************************************************************************)
(* JSON.parse on the texts the backend sends: objects whose members are    *)
(* strings without escapes, written without white space.  Every other text *)
(* the model feeds to it ("[DONE]", "{oops", a fragment of a line) is not  *)
(* JSON at all, and JSON.parse throws a SyntaxError.                       *)
(*   result: [ok |-> TRUE, obj |-> [key -> value]]  or  [ok |-> FALSE]     *)
(***************************************************************************)
SyntaxError == [ok |-> FALSE, obj |-> <<>>]

\* a string literal starting at index i: [ok, val, next]
ParseString(s, i) ==
  LET j == indexOf(s, "\"", i + 1)
  IN  IF i > Len(s) \/ charAt(s, i) # "\"" \/ j = 0
      THEN [ok |-> FALSE, val |-> "", next |-> 0]
      ELSE [ok |-> TRUE, val |-> SubSeq(s, i + 1, j - 1), next |-> j + 1]

\* members of an object from index i on, acc holds the members read so far
RECURSIVE ParseMembers(_, _, _)
ParseMembers(s, i, acc) ==
  LET k == ParseString(s, i)
      v == ParseString(s, k.next + 1)
      obj == [x \in DOMAIN acc \cup {k.val} |->
                IF x = k.val THEN v.val ELSE acc[x]]
  IN  IF ~k.ok \/ k.next > Len(s) \/ charAt(s, k.next) # ":" THEN SyntaxError
      ELSE IF ~v.ok \/ v.next > Len(s) THEN SyntaxError
      ELSE IF charAt(s, v.next) = "}"
           THEN IF v.next = Len(s) THEN [ok |-> TRUE, obj |-> obj]
                ELSE SyntaxError
      ELSE IF charAt(s, v.next) = "," THEN ParseMembers(s, v.next + 1, obj)
      ELSE SyntaxError

JSONparse(s) ==
  IF Len(s) < 2 \/ charAt(s, 1) # "{" THEN SyntaxError
  ELSE IF s = "{}" THEN [ok |-> TRUE, obj |-> <<>>]
  ELSE ParseMembers(s, 2, <<>>)

\* property access data.k
Get(obj, k) == IF k \in DOMAIN obj THEN obj[k] ELSE undefined

(***************************************************************************)
(* State.                                                                  *)
(*   React state of StreamingChatUI: messages, input, isStreaming,         *)
(*   currentThinking, currentContent, showThinking.                        *)
(*   One call of handleSendMessage: pc (where the async function is        *)
(*   suspended), its locals buffer, thinkingBuffer, contentBuffer,         *)
(*   inThinking, inAnswer, and the response it reads: body (the text the   *)
(*   backend sends) and readPos (how much of it reader.read() has          *)
(*   delivered).                                                           *)
(*   Effects outside the component: console (number of console.error       *)
(*   calls), fileModified (arguments of the onFileModified calls), applied *)
(*   (payloads of the `data: ` lines handed to the dispatcher, in order).  *)
(***************************************************************************)
VARIABLES messages, input, isStreaming, currentThinking, currentContent,
          showThinking, pc, body, readPos, buffer, thinkingBuffer,
          contentBuffer, inThinking, inAnswer, console, fileModified, applied

reactVars == <<messages, input, isStreaming, currentThinking, currentContent,
               showThinking>>
loopVars == <<buffer, thinkingBuffer, contentBuffer, inThinking, inAnswer,
              console, fileModified, applied>>
uiVars == <<reactVars, loopVars, pc, body, readPos>>

\* the part of the state the read loop works on, as one record
LoopState ==
  [buffer |-> buffer, thinkingBuffer |-> thinkingBuffer,
   contentBuffer |-> contentBuffer, inThinking |-> inThinking,
   inAnswer |-> inAnswer, messages |-> messages,
   currentThinking |-> currentThinking, currentContent |-> currentContent,
   console |-> console, fileModified |-> fileModified, applied |-> applied]

\* the locals as declared before the loop, over the given React state
FreshLoop(msgs) ==
  [buffer |-> "", thinkingBuffer |-> "", contentBuffer |-> "",
   inThinking |-> FALSE, inAnswer |-> FALSE, messages |-> msgs,
   currentThinking |-> "", currentContent |-> "",
   console |-> 0, fileModified |-> <<>>, applied |-> <<>>]

(***************************************************************************)
(* Messages.                                                               *)
(***************************************************************************)
Msg(role, content) == [role |-> role, content |-> content]

ToolMsg(name, args) ==
  [role |-> "tool", content |-> "Executing: " \o name,
   toolCall |-> [name |-> name, args |-> args, result |-> undefined]]

\* Array.prototype.findLastIndex(m => m.role === 'tool'), 0 for -1
RECURSIVE findLastTool(_, _)
findLastTool(msgs, i) ==
  IF i = 0 THEN 0
  ELSE IF msgs[i].role = "tool" THEN i
  ELSE findLastTool(msgs, i - 1)

\* the setMessages updater of the tool_result branch
SetToolResult(msgs, result) ==
  LET i == findLastTool(msgs, Len(msgs))
  IN  IF i # 0 /\ "toolCall" \in DOMAIN msgs[i]
      THEN [msgs EXCEPT ![i].toolCall.result = result]
      ELSE msgs

(***************************************************************************)
(* The body of the for loop of handleSendMessage: one line of the split    *)
(* buffer.  A throw inside the try block (JSON.parse, or the throw of the  *)
(* error branch) lands in the catch of the same try, which logs it.        *)
(***************************************************************************)
\* Dispatch rejecting an event type it does not know, as it rejects an error
\* event
Dispatch_strict(s, data, show) ==
  LET type == Get(data, "type") IN
  IF type = "thinking" THEN
    [s EXCEPT !.inThinking = TRUE,
              !.thinkingBuffer = @ \o Get(data, "content"),
              !.currentThinking = s.thinkingBuffer \o Get(data, "content")]
  ELSE IF type = "content" THEN
    [s EXCEPT !.inThinking = FALSE, !.inAnswer = TRUE,
              !.contentBuffer = @ \o Get(data, "content"),
              !.currentContent = s.contentBuffer \o Get(data, "content")]
  ELSE IF type = "tool_call" THEN
    [s EXCEPT !.messages =
        Append(@, ToolMsg(Get(data, "tool_name"), Get(data, "tool_args")))]
  ELSE IF type = "tool_result" THEN
    [s EXCEPT !.messages = SetToolResult(@, Get(data, "result")),
              !.fileModified =
                 IF Get(data, "tool_name") \in {"write_file", "edit_file"}
                 THEN Append(@, undefined) ELSE @]
  ELSE IF type = "done" THEN
    LET m1 == IF s.thinkingBuffer # "" /\ show
              THEN Append(s.messages, Msg("thinking", s.thinkingBuffer))
              ELSE s.messages
        m2 == IF s.contentBuffer # ""
              THEN Append(m1, Msg("assistant", s.contentBuffer))
              ELSE m1
    IN  [s EXCEPT !.messages = m2, !.currentThinking = "",
                  !.currentContent = ""]
  ELSE IF type = "error" THEN
    [s EXCEPT !.console = @ + 1]
  ELSE [s EXCEPT !.console = @ + 1]

Dispatch(s, data, show) ==
  LET type == Get(data, "type") IN
  IF type = "thinking" THEN
    [s EXCEPT !.inThinking = TRUE,
              !.thinkingBuffer = @ \o Get(data, "content"),
              !.currentThinking = s.thinkingBuffer \o Get(data, "content")]
  ELSE IF type = "content" THEN
    [s EXCEPT !.inThinking = FALSE, !.inAnswer = TRUE,
              !.contentBuffer = @ \o Get(data, "content"),
              !.currentContent = s.contentBuffer \o Get(data, "content")]
  ELSE IF type = "tool_call" THEN
    [s EXCEPT !.messages =
        Append(@, ToolMsg(Get(data, "tool_name"), Get(data, "tool_args")))]
  ELSE IF type = "tool_result" THEN
    [s EXCEPT !.messages = SetToolResult(@, Get(data, "result")),
              !.fileModified =
                 IF Get(data, "tool_name") \in {"write_file", "edit_file"}
                 THEN Append(@, undefined) ELSE @]
  ELSE IF type = "done" THEN
    LET m1 == IF s.thinkingBuffer # "" /\ show
              THEN Append(s.messages, Msg("thinking", s.thinkingBuffer))
              ELSE s.messages
        m2 == IF s.contentBuffer # ""
              THEN Append(m1, Msg("assistant", s.contentBuffer))
              ELSE m1
    IN  [s EXCEPT !.messages = m2, !.currentThinking = "",
                  !.currentContent = ""]
  ELSE IF type = "error" THEN
    [s EXCEPT !.console = @ + 1]
  ELSE s

\* ProcessLine with a parse failure reported in the conversation
ProcessLine_surfacing(s, line, show) ==
  IF startsWith(line, "data: ") THEN
    LET p == JSONparse(slice(line, 6))
        t == [s EXCEPT !.applied = Append(@, slice(line, 6))]
    IN  IF p.ok THEN Dispatch(t, p.obj, show)
        ELSE [t EXCEPT !.console = @ + 1,
                       !.messages = Append(@, [role |-> "assistant",
                          content |-> "Error: malformed event payload"])]
  ELSE s

ProcessLine(s, line, show) ==
  IF startsWith(line, "data: ") THEN
    LET p == JSONparse(slice(line, 6))
        t == [s EXCEPT !.applied = Append(@, slice(line, 6))]
    IN  IF p.ok THEN Dispatch(t, p.obj, show)
        ELSE [t EXCEPT !.console = @ + 1]
  ELSE s

\* ProcessLines walking the lines of a chunk from the last to the first
RECURSIVE ProcessLines_reversed(_, _, _, _)
ProcessLines_reversed(s, lines, i, show) ==
  IF i >= Len(lines) THEN s
  ELSE ProcessLine(ProcessLines_reversed(s, lines, i + 1, show), lines[i],
                   show)

RECURSIVE ProcessLines(_, _, _, _)
ProcessLines(s, lines, i, show) ==
  IF i >= Len(lines) THEN s
  ELSE ProcessLines(ProcessLine(s, lines[i], show), lines, i + 1, show)

\* Feed without the carry-over buffer: every chunk is split on its own
Feed_unbuffered(s, chunk, show) ==
  ProcessLines(s, Append(split(chunk), ""), 1, show)

\* one iteration of the while loop after reader.read() returned a chunk:
\* every segment but the last is a complete line, the last one goes back
\* into buffer
Feed(s, chunk, show) ==
  LET lines == split(s.buffer \o chunk)
  IN  ProcessLines([s EXCEPT !.buffer = lines[Len(lines)]], lines, 1, show)

(***************************************************************************)
(* State of one call of chatApi.streamMessage: apiPc, the response it      *)
(* reads (apiBody, apiPos), apiData (the local `data`: the payload of the  *)
(* `data: ` line examined last) and calls, the callbacks it has invoked,   *)
(* in order, each with its argument.                                       *)
(***************************************************************************)
VARIABLES apiPc, apiBody, apiPos, apiData, calls

apiVars == <<apiPc, apiBody, apiPos, apiData, calls>>

\* a second call of handleSendMessage in the same component: its position,
\* its response body and how much of it was read, and its local variables.
\* abandoned records that stopStreaming was called while the first call
\* was awaiting fetch or reading.
VARIABLES pc2, body2, readPos2, locals2, abandoned

stopVars == <<pc2, body2, readPos2, locals2, abandoned>>

\* useChatStore (conversations in insertion order, as the Map keeps them)
\* and one ChatInterface: its input and isStreaming state, the position of
\* its handleSend and the convId that call holds.  nextId stands for the
\* clock and random suffix that make every new conversation id fresh, turns
\* counts the calls of handleSend, lastCall is the latest call of a store
\* action with its arguments.
VARIABLES conversations, currentConversationId, isLoading, nextId, lastCall,
          chatInput, chatIsStreaming, chatPc, convId, turns

storeVars == <<conversations, currentConversationId, isLoading, nextId,
               lastCall>>
chatVars == <<storeVars, chatInput, chatIsStreaming, chatPc, convId, turns>>

\* one useKeyboardShortcuts instance: the registered list, a keydown event
\* and the element that has the focus when it is dispatched, whether the
\* listener has run for it (keyPc), the handlers it invoked (by position in
\* the list) and whether it called preventDefault
VARIABLES shortcuts, activeElement, keyEvent, keyPc, invoked,
          defaultPrevented

keyVars == <<shortcuts, activeElement, keyEvent, keyPc, invoked,
             defaultPrevented>>

\* useAuthStore; authCalls holds the calls of login, signup, logout and
\* checkAuth in the order they were made, each with its position and what
\* it read or returned
VARIABLES user, sessionToken, isAuthenticated, authIsLoading, authCalls

authVars == <<user, sessionToken, isAuthenticated, authIsLoading, authCalls>>

\* useCodeStore: the open files in insertion order, as the Map keeps them,
\* the current file and project, the project whose tree fileTree holds,
\* the calls of refreshFileTree in the order they were made, and the
\* last call made on the open files
VARIABLES openFiles, currentFile, currentProject, fileTree, refreshes,
          codeCall

codeVars ==
  <<openFiles, currentFile, currentProject, fileTree, refreshes, codeCall>>

\* one Terminal component: the readyState of every WebSocket its effect
\* has created (the last one is wsRef.current), and its React state
VARIABLES sockets, isConnected, output, terminalInput

termVars == <<sockets, isConnected, output, terminalInput>>

lateVars == <<authVars, codeVars, termVars>>

otherVars == <<stopVars, chatVars, keyVars, lateVars>>
vars == <<uiVars, apiVars, otherVars>>

(***************************************************************************)
(* What the backend sends.                                                 *)
(***************************************************************************)
NL == "\n"
LineThinking == "data: {\"type\":\"thinking\",\"content\":\"t\"}"
LineContentA == "data: {\"type\":\"content\",\"content\":\"a\"}"
LineContentB == "data: {\"type\":\"content\",\"content\":\"b\"}"
LineToolCallR == "data: {\"type\":\"tool_call\",\"tool_name\":\"read_file\"}"
LineToolCallW == "data: {\"type\":\"tool_call\",\"tool_name\":\"write_file\"}"
LineToolResultR ==
  "data: {\"type\":\"tool_result\",\"tool_name\":\"read_file\",\"result\":\"ok\"}"
LineToolResultW ==
  "data: {\"type\":\"tool_result\",\"tool_name\":\"write_file\",\"result\":\"ok\"}"
LineDone == "data: {\"type\":\"done\"}"
LineError == "data: {\"type\":\"error\",\"error\":\"boom\"}"
LineSentinel == "data: [DONE]"
LineMalformed == "data: {\"type\":\"content\",oops"
LinePing == "data: {\"type\":\"ping\"}"
LineComment == ": keep-alive"
LineBlank == ""

\* the texts of at most MaxLines lines of L, each ended by a newline
RECURSIVE Join(_, _)
Join(ls, i) == IF i > Len(ls) THEN "" ELSE ls[i] \o NL \o Join(ls, i + 1)

Bodies(L) == {Join(ls, 1) : ls \in UNION {[1..n -> L] : n \in 0..MaxLines}}

\* sizes of the chunk reader.read() may return when `left` characters remain
ChunkSizes(left) == {n \in 1..MaxChunk : n <= left} \cup {left}

Inputs == {"", "  ", " hi "}

HttpErrors == {"Failed to fetch", "HTTP error! status: 500", "No response body"}
ReadError == "network error"

(***************************************************************************)
(* StreamingChatUI                                                         *)
(***************************************************************************)
InitReact ==
  /\ messages = <<>>
  /\ input = ""
  /\ isStreaming = FALSE
  /\ currentThinking = ""
  /\ currentContent = ""
  /\ showThinking = TRUE

InitLoop ==
  /\ pc = "idle"
  /\ readPos = 0
  /\ buffer = ""
  /\ thinkingBuffer = ""
  /\ contentBuffer = ""
  /\ inThinking = FALSE
  /\ inAnswer = FALSE
  /\ console = 0
  /\ fileModified = <<>>
  /\ applied = <<>>

InitApi ==
  /\ apiPc = "idle"
  /\ apiPos = 0
  /\ apiData = ""
  /\ calls = <<>>

\* the local variables of a call that has not declared them yet
NoLocals ==
  [buffer |-> "", thinkingBuffer |-> "", contentBuffer |-> "",
   inThinking |-> FALSE, inAnswer |-> FALSE]

InitStop ==
  /\ pc2 = "idle"
  /\ body2 = ""
  /\ readPos2 = 0
  /\ locals2 = NoLocals
  /\ abandoned = FALSE

\* a call of a store action; arguments the action does not take are empty
StoreCall(op, id, role, content) ==
  [op |-> op, id |-> id, role |-> role, content |-> content]

InitStore ==
  /\ conversations = <<>>
  /\ currentConversationId = 0
  /\ isLoading = FALSE
  /\ nextId = 1
  /\ lastCall = StoreCall("", 0, "", "")

InitChat ==
  /\ chatInput = ""
  /\ chatIsStreaming = FALSE
  /\ chatPc = "idle"
  /\ convId = 0
  /\ turns = 0

\* no key was pressed yet
NoEvent ==
  [key |-> "", ctrlKey |-> FALSE, shiftKey |-> FALSE, altKey |-> FALSE,
   metaKey |-> FALSE]

Body == [tagName |-> "BODY", contenteditable |-> undefined]

InitKeys ==
  /\ shortcuts = <<>>
  /\ activeElement = Body
  /\ keyEvent = NoEvent
  /\ keyPc = "idle"
  /\ invoked = <<>>
  /\ defaultPrevented = FALSE

InitAuth ==
  /\ user = 0
  /\ sessionToken = 0
  /\ isAuthenticated = FALSE
  /\ authIsLoading = FALSE
  /\ authCalls = <<>>

InitCode ==
  /\ openFiles = <<>>
  /\ currentFile = 0
  /\ currentProject = 0
  /\ fileTree = 0
  /\ refreshes = <<>>
  /\ codeCall = [op |-> "", path |-> 0]

\* no Terminal is mounted
InitTerminal ==
  /\ sockets = <<>>
  /\ isConnected = FALSE
  /\ output = <<>>
  /\ terminalInput = ""

InitLate == InitAuth /\ InitCode /\ InitTerminal

InitOther == InitStop /\ InitStore /\ InitChat /\ InitKeys /\ InitLate

\* onChange of the input box (disabled while isStreaming)
SetInput ==
  /\ pc = "idle"
  /\ ~isStreaming
  /\ \E text \in Inputs : input' = text
  /\ UNCHANGED <<messages, isStreaming, currentThinking, currentContent,
                 showThinking, loopVars, pc, body, readPos, apiVars,
                 otherVars>>

\* the Show/Hide Thinking button.  handleSendMessage reads showThinking of
\* the render it was called in, so only the value at call time matters to a
\* request; the button is modelled between requests.
ToggleThinking ==
  /\ pc = "idle"
  /\ showThinking' = ~showThinking
  /\ UNCHANGED <<messages, input, isStreaming, currentThinking,
                 currentContent, loopVars, pc, body, readPos, apiVars,
                 otherVars>>

\* handleSendMessage up to `await fetch`
SendMessage ==
  /\ pc = "idle"
  /\ trim(input) # ""
  /\ ~isStreaming
  /\ messages' = Append(messages, Msg("user", trim(input)))
  /\ input' = ""
  /\ isStreaming' = TRUE
  /\ currentThinking' = ""
  /\ currentContent' = ""
  /\ pc' = "fetch"
  /\ UNCHANGED <<showThinking, loopVars, body, readPos, apiVars, otherVars>>

\* the outer catch and the finally block
Catch(message) ==
  /\ console' = console + 1
  /\ messages' = Append(messages, Msg("assistant", "Error: " \o message))
  /\ isStreaming' = FALSE
  /\ pc' = "failed"

\* fetch rejects, or the response is not ok, or it has no body
FetchFail ==
  /\ pc = "fetch"
  /\ \E e \in HttpErrors : Catch(e)
  /\ UNCHANGED <<input, currentThinking, currentContent, showThinking,
                 buffer, thinkingBuffer, contentBuffer, inThinking, inAnswer,
                 fileModified, applied, body, readPos, apiVars, otherVars>>

\* the response is ok and has a body: the locals are declared
FetchOk ==
  /\ pc = "fetch"
  /\ pc' = "reading"
  /\ buffer' = ""
  /\ thinkingBuffer' = ""
  /\ contentBuffer' = ""
  /\ inThinking' = FALSE
  /\ inAnswer' = FALSE
  /\ UNCHANGED <<reactVars, console, fileModified, applied, body, readPos,
                 apiVars, otherVars>>

\* reader.read() returns the next chunk: one iteration of the while loop
ReadChunk ==
  /\ pc = "reading"
  /\ readPos < Len(body)
  /\ \E n \in ChunkSizes(Len(body) - readPos) :
     \E r \in {Feed(LoopState, SubSeq(body, readPos + 1, readPos + n),
                    showThinking)} :
           /\ readPos' = readPos + n
           /\ buffer' = r.buffer
           /\ thinkingBuffer' = r.thinkingBuffer
           /\ contentBuffer' = r.contentBuffer
           /\ inThinking' = r.inThinking
           /\ inAnswer' = r.inAnswer
           /\ messages' = r.messages
           /\ currentThinking' = r.currentThinking
           /\ currentContent' = r.currentContent
           /\ console' = r.console
           /\ fileModified' = r.fileModified
           /\ applied' = r.applied
  /\ UNCHANGED <<input, isStreaming, showThinking, pc, body, apiVars,
                 otherVars>>

\* reader.read() reports done: break, then the finally block
ReadDone ==
  /\ pc = "reading"
  /\ readPos = Len(body)
  /\ isStreaming' = FALSE
  /\ pc' = "ended"
  /\ UNCHANGED <<messages, input, currentThinking, currentContent,
                 showThinking, loopVars, body, readPos, apiVars, otherVars>>

\* reader.read() rejects (the connection drops)
ReadFail ==
  /\ pc = "reading"
  /\ Catch(ReadError)
  /\ UNCHANGED <<input, currentThinking, currentContent, showThinking,
                 buffer, thinkingBuffer, contentBuffer, inThinking, inAnswer,
                 fileModified, applied, body, readPos, apiVars, otherVars>>

NextUI ==
  \/ SetInput
  \/ ToggleThinking
  \/ SendMessage
  \/ FetchFail
  \/ FetchOk
  \/ ReadChunk
  \/ ReadDone
  \/ ReadFail

\* a request whose response body is made of lines of L, followed by tail
InitBodies(L, tails) ==
  /\ InitReact
  /\ InitLoop
  /\ InitApi
  /\ InitOther
  /\ apiBody = ""
  /\ body \in {b \o t : b \in Bodies(L), t \in tails}

\* thinking and content deltas, a malformed line, the typed done event
LinesUI == {LineThinking, LineContentA, LineContentB, LineMalformed,
            LineDone}
InitUI == InitBodies(LinesUI, {""})
SpecUI == InitUI /\ [][NextUI]_vars

\* content deltas and the terminal events in all their forms
LinesTerm == {LineContentA, LineContentB, LineDone, LineError, LineSentinel}
InitTerm == InitBodies(LinesTerm, {""})
SpecTerm == InitTerm /\ [][NextUI]_vars

\* bodies the transport may cut short: the last line has no newline
LinesTail == {LineContentA, LineDone, LineError}
TailPartial == "data: {\"type\":\"content\",\"content\":\"b\"}"
InitTail == InitBodies(LinesTail, {"", TailPartial})
SpecTail == InitTail /\ [][NextUI]_vars

\* tool calls and tool results
LinesTool == {LineToolCallR, LineToolCallW, LineToolResultR, LineToolResultW}
InitTool == InitBodies(LinesTool, {""})
SpecTool == InitTool /\ [][NextUI]_vars

\* the same, in a component whose initialMessages hold a tool entry that an
\* earlier request left without result
PriorTool == ToolMsg("read_file", undefined)
InitToolPrior ==
  /\ messages = <<PriorTool>>
  /\ input = ""
  /\ isStreaming = FALSE
  /\ currentThinking = ""
  /\ currentContent = ""
  /\ showThinking = TRUE
  /\ InitLoop
  /\ InitApi
  /\ InitOther
  /\ apiBody = ""
  /\ body \in Bodies(LinesTool)
SpecToolPrior == InitToolPrior /\ [][NextUI]_vars

(***************************************************************************)
(* chatApi.streamMessage                                                   *)
(***************************************************************************)
Call(cb, arg) == [cb |-> cb, arg |-> arg]

\* the for loop over the lines of one chunk; `return` leaves the function
\*   a: [calls, data, returned]
\* ApiLine going on with the stream after the [DONE] sentinel
ApiLine_continuing(a, line) ==
  IF a.returned \/ ~startsWith(line, "data: ") THEN a
  ELSE LET data == slice(line, 6) IN
       IF data = "[DONE]"
       THEN [calls |-> Append(a.calls, Call("onComplete", "")),
             data |-> data, returned |-> FALSE]
       ELSE IF startsWith(data, "[ERROR]")
       THEN [calls |-> Append(a.calls, Call("onError", slice(data, 8))),
             data |-> data, returned |-> TRUE]
       ELSE [calls |-> Append(a.calls, Call("onChunk", data)),
             data |-> data, returned |-> FALSE]

ApiLine(a, line) ==
  IF a.returned \/ ~startsWith(line, "data: ") THEN a
  ELSE LET data == slice(line, 6) IN
       IF data = "[DONE]"
       THEN [calls |-> Append(a.calls, Call("onComplete", "")),
             data |-> data, returned |-> TRUE]
       ELSE IF startsWith(data, "[ERROR]")
       THEN [calls |-> Append(a.calls, Call("onError", slice(data, 8))),
             data |-> data, returned |-> TRUE]
       ELSE [calls |-> Append(a.calls, Call("onChunk", data)),
             data |-> data, returned |-> FALSE]

RECURSIVE ApiLines(_, _, _)
ApiLines(a, lines, i) ==
  IF i > Len(lines) THEN a
  ELSE ApiLines(ApiLine(a, lines[i]), lines, i + 1)

\* one iteration of the while loop on a chunk
ApiFeed(cs, data, chunk) ==
  ApiLines([calls |-> cs, data |-> data, returned |-> FALSE], split(chunk), 1)

\* streamMessage up to `await fetch`
ApiStart ==
  /\ apiPc = "idle"
  /\ apiPc' = "fetch"
  /\ UNCHANGED <<uiVars, otherVars, apiBody, apiPos, apiData, calls>>

\* fetch rejects, the response is not ok or has no body: the catch block
ApiFetchFail ==
  /\ apiPc = "fetch"
  /\ \E e \in HttpErrors : calls' = Append(calls, Call("onError", e))
  /\ apiPc' = "returned"
  /\ UNCHANGED <<uiVars, otherVars, apiBody, apiPos, apiData>>

ApiFetchOk ==
  /\ apiPc = "fetch"
  /\ apiPc' = "reading"
  /\ UNCHANGED <<uiVars, otherVars, apiBody, apiPos, apiData, calls>>

\* reader.read() returns the next chunk
ApiReadChunk ==
  /\ apiPc = "reading"
  /\ apiPos < Len(apiBody)
  /\ \E n \in ChunkSizes(Len(apiBody) - apiPos) :
     \E r \in {ApiFeed(calls, apiData,
                       SubSeq(apiBody, apiPos + 1, apiPos + n))} :
           /\ apiPos' = apiPos + n
           /\ calls' = r.calls
           /\ apiData' = r.data
           /\ apiPc' = IF r.returned THEN "returned" ELSE "reading"
  /\ UNCHANGED <<uiVars, otherVars, apiBody>>

\* reader.read() reports done
ApiReadDone ==
  /\ apiPc = "reading"
  /\ apiPos = Len(apiBody)
  /\ calls' = Append(calls, Call("onComplete", ""))
  /\ apiPc' = "returned"
  /\ UNCHANGED <<uiVars, otherVars, apiBody, apiPos, apiData>>

\* reader.read() rejects: the catch block
ApiReadFail ==
  /\ apiPc = "reading"
  /\ calls' = Append(calls, Call("onError", ReadError))
  /\ apiPc' = "returned"
  /\ UNCHANGED <<uiVars, otherVars, apiBody, apiPos, apiData>>

NextApi ==
  \/ ApiStart
  \/ ApiFetchFail
  \/ ApiFetchOk
  \/ ApiReadChunk
  \/ ApiReadDone
  \/ ApiReadFail

\* what /chat/stream sends: text deltas, the sentinels, a comment line
LineText1 == "data: Hello"
LineText2 == "data: , world"
LineErrorTag == "data: [ERROR] boom"
LineErrorTagTight == "data: [ERROR]boom"
LineErrorTagWide == "data: [ERROR]  boom "
LinesApi == {LineText1, LineText2, LineSentinel, LineErrorTag,
             LineErrorTagTight, LineErrorTagWide, LineComment}

InitApiSpec ==
  /\ InitReact
  /\ InitLoop
  /\ InitApi
  /\ InitOther
  /\ body = ""
  /\ apiBody \in Bodies(LinesApi)

SpecApi == InitApiSpec /\ [][NextApi]_vars

\* a call whose transport goes on until it has ended or failed: text, both
\* sentinels and a comment line
LinesApiEnd == {LineText1, LineSentinel, LineErrorTag, LineComment}
InitApiEnd ==
  /\ InitReact
  /\ InitLoop
  /\ InitApi
  /\ InitOther
  /\ body = ""
  /\ apiBody \in Bodies(LinesApiEnd)
SpecApiEnd == InitApiEnd /\ [][NextApi]_vars /\ WF_vars(NextApi)

(***************************************************************************)
(* Both consumers of a stream, one of them with a response to read: lines  *)
(* without the `data: ` prefix (a comment, a blank line) and an event of a *)
(* type neither consumer knows, among content.                             *)
(***************************************************************************)
LinesIgnore == {LineContentA, LineDone, LinePing, LineComment, LineBlank}
LinesApiIgnore == {LineText1, LineComment, LineBlank}

InitIgnore ==
  /\ InitReact
  /\ InitLoop
  /\ InitApi
  /\ InitOther
  /\ \/ body \in Bodies(LinesIgnore) /\ apiBody = ""
     \/ body = "" /\ apiBody \in Bodies(LinesApiIgnore)

\* the component and the client are used by different screens: a run drives
\* the one whose request has a response body
NextEither ==
  \/ apiBody = "" /\ NextUI
  \/ body = "" /\ NextApi

SpecIgnore == InitIgnore /\ [][NextEither]_vars

(***************************************************************************)
(* stopStreaming and a second call of handleSendMessage.  The guard of     *)
(* handleSendMessage and the disabled input read isStreaming only, and     *)
(* stopStreaming sets it to false: eventSourceRef and abortControllerRef   *)
(* are never assigned and fetch is given no signal, so the calls on them   *)
(* do nothing and the first call goes on awaiting and reading.  The second *)
(* call has its own local variables and shares the React state.            *)
(***************************************************************************)
LoopState2 ==
  [buffer |-> locals2.buffer, thinkingBuffer |-> locals2.thinkingBuffer,
   contentBuffer |-> locals2.contentBuffer,
   inThinking |-> locals2.inThinking, inAnswer |-> locals2.inAnswer,
   messages |-> messages, currentThinking |-> currentThinking,
   currentContent |-> currentContent, console |-> console,
   fileModified |-> fileModified, applied |-> <<>>]

\* the Stop button, rendered while isStreaming
StopStreaming ==
  /\ isStreaming
  /\ isStreaming' = FALSE
  /\ abandoned' = (abandoned \/ pc \in {"fetch", "reading"})
  /\ UNCHANGED <<messages, input, currentThinking, currentContent,
                 showThinking, loopVars, pc, body, readPos, apiVars,
                 pc2, body2, readPos2, locals2, chatVars,
                 keyVars, lateVars>>

\* onChange of the input box after the first call was made
SetInputLater ==
  /\ pc # "idle"
  /\ pc2 = "idle"
  /\ ~isStreaming
  /\ \E text \in Inputs : input' = text
  /\ UNCHANGED <<messages, isStreaming, currentThinking, currentContent,
                 showThinking, loopVars, pc, body, readPos, apiVars,
                 otherVars>>

\* the second call of handleSendMessage, up to `await fetch`
SendAgain ==
  /\ pc # "idle"
  /\ pc2 = "idle"
  /\ trim(input) # ""
  /\ ~isStreaming
  /\ messages' = Append(messages, Msg("user", trim(input)))
  /\ input' = ""
  /\ isStreaming' = TRUE
  /\ currentThinking' = ""
  /\ currentContent' = ""
  /\ pc2' = "fetch"
  /\ UNCHANGED <<showThinking, loopVars, pc, body, readPos, apiVars, body2,
                 readPos2, locals2, abandoned, chatVars,
                 keyVars, lateVars>>

\* the outer catch and the finally block of the second call
Catch2(message) ==
  /\ console' = console + 1
  /\ messages' = Append(messages, Msg("assistant", "Error: " \o message))
  /\ isStreaming' = FALSE
  /\ pc2' = "failed"

FetchFail2 ==
  /\ pc2 = "fetch"
  /\ \E e \in HttpErrors : Catch2(e)
  /\ UNCHANGED <<input, currentThinking, currentContent, showThinking,
                 buffer, thinkingBuffer, contentBuffer, inThinking, inAnswer,
                 fileModified, applied, pc, body, readPos, apiVars, body2,
                 readPos2, locals2, abandoned, chatVars,
                 keyVars, lateVars>>

FetchOk2 ==
  /\ pc2 = "fetch"
  /\ pc2' = "reading"
  /\ locals2' = NoLocals
  /\ UNCHANGED <<uiVars, apiVars, body2, readPos2, abandoned, chatVars,
                 keyVars, lateVars>>

ReadChunk2 ==
  /\ pc2 = "reading"
  /\ readPos2 < Len(body2)
  /\ \E n \in ChunkSizes(Len(body2) - readPos2) :
     \E r \in {Feed(LoopState2, SubSeq(body2, readPos2 + 1, readPos2 + n),
                    showThinking)} :
           /\ readPos2' = readPos2 + n
           /\ locals2' = [buffer |-> r.buffer,
                          thinkingBuffer |-> r.thinkingBuffer,
                          contentBuffer |-> r.contentBuffer,
                          inThinking |-> r.inThinking,
                          inAnswer |-> r.inAnswer]
           /\ messages' = r.messages
           /\ currentThinking' = r.currentThinking
           /\ currentContent' = r.currentContent
           /\ console' = r.console
           /\ fileModified' = r.fileModified
  /\ UNCHANGED <<input, isStreaming, showThinking, buffer, thinkingBuffer,
                 contentBuffer, inThinking, inAnswer, applied, pc, body,
                 readPos, apiVars, pc2, body2, abandoned, chatVars,
                 keyVars, lateVars>>

ReadDone2 ==
  /\ pc2 = "reading"
  /\ readPos2 = Len(body2)
  /\ isStreaming' = FALSE
  /\ pc2' = "ended"
  /\ UNCHANGED <<messages, input, currentThinking, currentContent,
                 showThinking, loopVars, pc, body, readPos, apiVars, body2,
                 readPos2, locals2, abandoned, chatVars,
                 keyVars, lateVars>>

ReadFail2 ==
  /\ pc2 = "reading"
  /\ Catch2(ReadError)
  /\ UNCHANGED <<input, currentThinking, currentContent, showThinking,
                 buffer, thinkingBuffer, contentBuffer, inThinking, inAnswer,
                 fileModified, applied, pc, body, readPos, apiVars, body2,
                 readPos2, locals2, abandoned, chatVars,
                 keyVars, lateVars>>

NextStop ==
  \/ NextUI
  \/ StopStreaming
  \/ SetInputLater
  \/ SendAgain
  \/ FetchFail2
  \/ FetchOk2
  \/ ReadChunk2
  \/ ReadDone2
  \/ ReadFail2

\* a first response of content deltas, a second one that is a done event
LinesStop == {LineContentA}
InitStopSpec ==
  /\ InitReact
  /\ InitLoop
  /\ InitApi
  /\ apiBody = ""
  /\ body \in Bodies(LinesStop)
  /\ pc2 = "idle"
  /\ body2 \in {"", LineDone \o NL}
  /\ readPos2 = 0
  /\ locals2 = NoLocals
  /\ abandoned = FALSE
  /\ InitStore
  /\ InitChat
  /\ InitKeys
  /\ InitLate

SpecStop == InitStopSpec /\ [][NextStop]_vars

(***************************************************************************)
(* useChatStore.  A store value is the record of conversations and         *)
(* currentConversationId; a conversation is its id, title and messages     *)
(* (message ids and the dates are left out: nothing reads them).  null is  *)
(* 0, conversation ids are 1, 2, ...                                       *)
(***************************************************************************)
null == 0
TitleLength == 50

Store == [conversations |-> conversations,
          currentConversationId |-> currentConversationId]

\* String.prototype.substring(0, n)
substring0(str, n) == SubSeq(str, 1, IF Len(str) < n THEN Len(str) ELSE n)

\* position of conversation id in the Map, 0 when it has no such key
RECURSIVE KeyIndex(_, _, _)
KeyIndex(convs, id, i) ==
  IF i > Len(convs) THEN 0
  ELSE IF convs[i].id = id THEN i
  ELSE KeyIndex(convs, id, i + 1)

RECURSIVE WithoutKey(_, _, _)
WithoutKey(convs, id, i) ==
  IF i > Len(convs) THEN <<>>
  ELSE (IF convs[i].id = id THEN <<>> ELSE <<convs[i]>>)
       \o WithoutKey(convs, id, i + 1)

createConversation(st, id) ==
  [conversations |->
     Append(st.conversations,
            [id |-> id, title |-> "New Conversation", messages |-> <<>>]),
   currentConversationId |-> id]

\* addMessage making the conversation when the store does not hold it
addMessage_recreating(st, conversationId, role, content) ==
  LET i == KeyIndex(st.conversations, conversationId, 1) IN
  IF i = 0
  THEN [st EXCEPT !.conversations =
          Append(@, [id |-> conversationId, title |-> "New Conversation",
                     messages |-> <<Msg(role, content)>>])]
  ELSE LET conversation == st.conversations[i]
           title ==
             IF Len(conversation.messages) = 0 /\ role = "user"
             THEN substring0(content, TitleLength)
                  \o (IF Len(content) > TitleLength THEN "..." ELSE "")
             ELSE conversation.title
       IN  [st EXCEPT !.conversations[i] =
              [id |-> conversation.id, title |-> title,
               messages |-> Append(conversation.messages,
                                   Msg(role, content))]]

\* addMessage taking the title from every user message
addMessage_retitling(st, conversationId, role, content) ==
  LET i == KeyIndex(st.conversations, conversationId, 1) IN
  IF i = 0 THEN st
  ELSE LET conversation == st.conversations[i]
           title ==
             IF role = "user"
             THEN substring0(content, TitleLength)
                  \o (IF Len(content) > TitleLength THEN "..." ELSE "")
             ELSE conversation.title
       IN  [st EXCEPT !.conversations[i] =
              [id |-> conversation.id, title |-> title,
               messages |-> Append(conversation.messages,
                                   Msg(role, content))]]

addMessage(st, conversationId, role, content) ==
  LET i == KeyIndex(st.conversations, conversationId, 1) IN
  IF i = 0 THEN st
  ELSE LET conversation == st.conversations[i]
           title ==
             IF Len(conversation.messages) = 0 /\ role = "user"
             THEN substring0(content, TitleLength)
                  \o (IF Len(content) > TitleLength THEN "..." ELSE "")
             ELSE conversation.title
       IN  [st EXCEPT !.conversations[i] =
              [id |-> conversation.id, title |-> title,
               messages |-> Append(conversation.messages,
                                   Msg(role, content))]]

setCurrentConversation(st, id) == [st EXCEPT !.currentConversationId = id]

\* deleteConversation leaving currentConversationId as it is
deleteConversation_stale(st, id) ==
  [conversations |-> WithoutKey(st.conversations, id, 1),
   currentConversationId |-> st.currentConversationId]

deleteConversation(st, id) ==
  LET newConversations == WithoutKey(st.conversations, id, 1)
  IN  [conversations |-> newConversations,
       currentConversationId |->
         IF st.currentConversationId = id
         THEN (IF Len(newConversations) > 0 THEN newConversations[1].id
               ELSE null)
         ELSE st.currentConversationId]

clearConversations(st) ==
  [conversations |-> <<>>, currentConversationId |-> null]

\* the store after set(...)
SetStore(st) ==
  /\ conversations' = st.conversations
  /\ currentConversationId' = st.currentConversationId

(***************************************************************************)
(* ChatInterface.handleSend and the sidebar that owns the conversation     *)
(* list.  The conversationId prop is whatever the parent passes: null or   *)
(* the id of a conversation created so far (it may have been deleted).     *)
(***************************************************************************)
ChatInputs == {"", " hello "}
Replies == {"ok"}
SendErrors == {"Network Error"}
CreatedIds == 1..(nextId - 1)

\* handleSend with a reply written to the store before the request is made
SendStart_eager(st, conversationId, id, text) ==
  LET created == IF conversationId = null THEN createConversation(st, id)
                 ELSE st
      cid == IF conversationId = null THEN id ELSE conversationId
  IN  addMessage(addMessage(created, cid, "user", text), cid, "assistant",
                 "")

\* the store after handleSend has run up to `await chatApi.sendMessage`;
\* id is the id createConversation would make
SendStart(st, conversationId, id, text) ==
  LET created == IF conversationId = null THEN createConversation(st, id)
                 ELSE st
      cid == IF conversationId = null THEN id ELSE conversationId
  IN  addMessage(created, cid, "user", text)

\* onChange of the textarea
ChatSetInput ==
  /\ \E text \in ChatInputs : chatInput' = text
  /\ UNCHANGED <<uiVars, apiVars, stopVars, keyVars, lateVars, storeVars, chatIsStreaming,
                 chatPc, convId, turns>>

\* handleSend up to the await
ChatSend ==
  /\ chatPc = "idle"
  /\ turns < MaxTurns
  /\ trim(chatInput) # ""
  /\ ~isLoading
  /\ ~chatIsStreaming
  /\ \E conversationId \in {null} \cup CreatedIds :
       /\ conversationId = null => nextId <= MaxConvs
       /\ SetStore(SendStart(Store, conversationId, nextId,
                             trim(chatInput)))
       /\ convId' = IF conversationId = null THEN nextId ELSE conversationId
       /\ nextId' = IF conversationId = null THEN nextId + 1 ELSE nextId
  /\ chatInput' = ""
  /\ chatIsStreaming' = TRUE
  /\ chatPc' = "awaiting"
  /\ turns' = turns + 1
  /\ lastCall' = StoreCall("addMessage", convId', "user", trim(chatInput))
  /\ UNCHANGED <<uiVars, apiVars, stopVars, keyVars, lateVars, isLoading>>

\* chatApi.sendMessage resolves
ChatResolve ==
  /\ chatPc = "awaiting"
  /\ \E reply \in Replies :
       /\ SetStore(addMessage(Store, convId, "assistant", reply))
       /\ lastCall' = StoreCall("addMessage", convId, "assistant", reply)
  /\ chatIsStreaming' = FALSE
  /\ chatPc' = "idle"
  /\ UNCHANGED <<uiVars, apiVars, stopVars, keyVars, lateVars, isLoading, nextId, chatInput,
                 convId, turns>>

\* chatApi.sendMessage rejects: the catch block
ChatReject ==
  /\ chatPc = "awaiting"
  /\ console' = console + 1
  /\ \E message \in SendErrors :
       /\ SetStore(addMessage(Store, convId, "assistant",
                              "Error: " \o message))
       /\ lastCall' = StoreCall("addMessage", convId, "assistant",
                                "Error: " \o message)
  /\ chatIsStreaming' = FALSE
  /\ chatPc' = "idle"
  /\ UNCHANGED <<reactVars, buffer, thinkingBuffer, contentBuffer,
                 inThinking, inAnswer, fileModified, applied, pc, body,
                 readPos, apiVars, stopVars, keyVars, lateVars, isLoading, nextId, chatInput,
                 convId, turns>>

\* the sidebar: New Conversation, selecting, deleting, clearing
SidebarCreate ==
  /\ nextId <= MaxConvs
  /\ SetStore(createConversation(Store, nextId))
  /\ nextId' = nextId + 1
  /\ lastCall' = StoreCall("createConversation", null, "", "")
  /\ UNCHANGED <<uiVars, apiVars, stopVars, keyVars, lateVars, isLoading, chatInput,
                 chatIsStreaming, chatPc, convId, turns>>

SidebarSelect ==
  /\ \E i \in 1..Len(conversations) :
       /\ SetStore(setCurrentConversation(Store, conversations[i].id))
       /\ lastCall' = StoreCall("setCurrentConversation",
                                conversations[i].id, "", "")
  /\ UNCHANGED <<uiVars, apiVars, stopVars, keyVars, lateVars, isLoading, nextId, chatInput,
                 chatIsStreaming, chatPc, convId, turns>>

SidebarDelete ==
  /\ \E i \in 1..Len(conversations) :
       /\ SetStore(deleteConversation(Store, conversations[i].id))
       /\ lastCall' = StoreCall("deleteConversation", conversations[i].id,
                                "", "")
  /\ UNCHANGED <<uiVars, apiVars, stopVars, keyVars, lateVars, isLoading, nextId, chatInput,
                 chatIsStreaming, chatPc, convId, turns>>

SidebarClear ==
  /\ conversations # <<>>
  /\ SetStore(clearConversations(Store))
  /\ lastCall' = StoreCall("clearConversations", null, "", "")
  /\ UNCHANGED <<uiVars, apiVars, stopVars, keyVars, lateVars, isLoading, nextId, chatInput,
                 chatIsStreaming, chatPc, convId, turns>>

\* setLoading of the store
SetLoading ==
  /\ isLoading' = ~isLoading
  /\ lastCall' = StoreCall("setLoading", null, "", "")
  /\ UNCHANGED <<uiVars, apiVars, stopVars, keyVars, lateVars, conversations,
                 currentConversationId, nextId, chatInput, chatIsStreaming,
                 chatPc, convId, turns>>

NextChat ==
  \/ ChatSetInput
  \/ ChatSend
  \/ ChatResolve
  \/ ChatReject
  \/ SidebarCreate
  \/ SidebarSelect
  \/ SidebarDelete
  \/ SidebarClear
  \/ SetLoading

InitChatSpec ==
  /\ InitReact
  /\ InitLoop
  /\ InitApi
  /\ InitOther
  /\ body = ""
  /\ apiBody = ""

SpecChat == InitChatSpec /\ [][NextChat]_vars

(***************************************************************************)
(* useChatStore on its own: any sequence of calls of its actions.          *)
(* addMessage is called with any id, in the store or not; the others are   *)
(* called as the sidebar calls them.                                       *)
(***************************************************************************)
LongText == "This first message is longer than fifty characters."
Roles == {"user", "assistant"}
Contents == {"hi", LongText}

RECURSIVE TotalMessages(_, _)
TotalMessages(convs, i) ==
  IF i > Len(convs) THEN 0
  ELSE Len(convs[i].messages) + TotalMessages(convs, i + 1)

StoreAddMessage ==
  /\ TotalMessages(conversations, 1) < MaxMsgs
  /\ \E id \in 1..MaxConvs, role \in Roles, content \in Contents :
       /\ SetStore(addMessage(Store, id, role, content))
       /\ lastCall' = StoreCall("addMessage", id, role, content)
  /\ UNCHANGED <<uiVars, apiVars, stopVars, keyVars, lateVars, isLoading, nextId,
                 chatInput, chatIsStreaming, chatPc, convId, turns>>

NextStore ==
  \/ StoreAddMessage
  \/ SidebarCreate
  \/ SidebarSelect
  \/ SidebarDelete
  \/ SidebarClear
  \/ SetLoading

SpecStore == InitChatSpec /\ [][NextStore]_vars

(***************************************************************************)
(* useKeyboardShortcuts.  An optional flag of a descriptor is undefined,   *)
(* "true" or "false"; the flags of an event are booleans.                  *)
(***************************************************************************)
UpperCase == "ABCDEFGHIJKLMNOPQRSTUVWXYZ"
LowerCase == "abcdefghijklmnopqrstuvwxyz"

\* String.prototype.toLowerCase on ASCII text
RECURSIVE toLowerCase(_)
toLowerCase(str) ==
  IF str = "" THEN ""
  ELSE LET i == indexOf(UpperCase, charAt(str, 1), 1)
       IN  (IF i = 0 THEN charAt(str, 1) ELSE charAt(LowerCase, i))
           \o toLowerCase(slice(str, 1))

\* the descriptor's flag === the event's flag
SameFlag(flag, held) == flag = (IF held THEN "true" ELSE "false")

isInputField(element) ==
  \/ element.tagName = "INPUT"
  \/ element.tagName = "TEXTAREA"
  \/ element.contenteditable = "true"

cmdOrCtrl(event) == event.ctrlKey \/ event.metaKey

matchesKey(shortcut, event) ==
  toLowerCase(event.key) = toLowerCase(shortcut.key)

\* matchesModifier without the ctrl/meta interchange
matchesModifier_exact(shortcut, event) ==
  /\ shortcut.ctrl = undefined \/ SameFlag(shortcut.ctrl, event.ctrlKey)
  /\ shortcut.shift = undefined \/ SameFlag(shortcut.shift, event.shiftKey)
  /\ shortcut.alt = undefined \/ SameFlag(shortcut.alt, event.altKey)
  /\ shortcut.meta = undefined \/ SameFlag(shortcut.meta, event.metaKey)

matchesModifier(shortcut, event) ==
  LET matchesCtrl ==
        shortcut.ctrl = undefined \/ SameFlag(shortcut.ctrl, event.ctrlKey)
      matchesShift ==
        shortcut.shift = undefined
          \/ SameFlag(shortcut.shift, event.shiftKey)
      matchesAlt ==
        shortcut.alt = undefined \/ SameFlag(shortcut.alt, event.altKey)
      matchesMeta ==
        shortcut.meta = undefined \/ SameFlag(shortcut.meta, event.metaKey)
  IN  IF shortcut.ctrl = "true" \/ shortcut.meta = "true"
      THEN cmdOrCtrl(event) /\ matchesShift /\ matchesAlt
      ELSE matchesCtrl /\ matchesShift /\ matchesAlt /\ matchesMeta

\* the `continue` of the loop
Skipped(shortcut, event, element) ==
  isInputField(element) /\ shortcut.key # "Escape" /\ ~cmdOrCtrl(event)

\* handleKeyDown going on with the list after it has invoked a handler
RECURSIVE handleKeyDown_all(_, _, _, _)
handleKeyDown_all(list, event, element, i) ==
  IF i > Len(list) THEN [invoked |-> <<>>, prevented |-> FALSE]
  ELSE LET rest == handleKeyDown_all(list, event, element, i + 1) IN
       IF /\ matchesKey(list[i], event)
          /\ matchesModifier(list[i], event)
          /\ ~Skipped(list[i], event, element)
       THEN [invoked |-> <<i>> \o rest.invoked,
             prevented |-> list[i].preventDefault # "false"
                             \/ rest.prevented]
       ELSE rest

\* the loop of handleKeyDown from position i of the list: the handlers it
\* invokes and whether it calls event.preventDefault
RECURSIVE handleKeyDown(_, _, _, _)
handleKeyDown(list, event, element, i) ==
  IF i > Len(list) THEN [invoked |-> <<>>, prevented |-> FALSE]
  ELSE IF /\ matchesKey(list[i], event)
          /\ matchesModifier(list[i], event)
          /\ ~Skipped(list[i], event, element)
       THEN [invoked |-> <<i>>,
             prevented |-> list[i].preventDefault # "false"]
       ELSE handleKeyDown(list, event, element, i + 1)

Flags == {undefined, "true", "false"}

Shortcut(key, ctrl, shift, alt, meta, preventDefault) ==
  [key |-> key, ctrl |-> ctrl, shift |-> shift, alt |-> alt, meta |-> meta,
   preventDefault |-> preventDefault]

\* every combination of the four flags, for keys in both cases
AllShortcuts ==
  {Shortcut(k, c, s, a, m, undefined) :
     k \in {"z", "Z", "Escape"}, c \in Flags, s \in Flags, a \in Flags,
     m \in Flags}

\* descriptors as the components register them (Ctrl+Z, Ctrl+Shift+Z, a
\* plain key, Escape), one of them without preventDefault
ListShortcuts ==
  {Shortcut(k, c, s, undefined, undefined, undefined) :
     k \in {"z", "Escape"}, c \in {undefined, "true"},
     s \in {undefined, "true"}}
  \cup {Shortcut("z", undefined, undefined, undefined, undefined, "false")}

KeyEvents ==
  [key : {"z", "Z", "Escape"}, ctrlKey : BOOLEAN, shiftKey : BOOLEAN,
   altKey : BOOLEAN, metaKey : BOOLEAN]

ActiveElements ==
  {Body,
   [tagName |-> "INPUT", contenteditable |-> undefined],
   [tagName |-> "TEXTAREA", contenteditable |-> undefined],
   [tagName |-> "DIV", contenteditable |-> "true"]}

\* the listener runs for the keydown event.  handleKeyDown keeps nothing
\* from one event to the next, so a run dispatches one event.
KeyDown ==
  /\ keyPc = "dispatched"
  /\ \E r \in {handleKeyDown(shortcuts, keyEvent, activeElement, 1)} :
        /\ invoked' = r.invoked
        /\ defaultPrevented' = r.prevented
  /\ keyPc' = "handled"
  /\ UNCHANGED <<uiVars, apiVars, stopVars, chatVars, lateVars,
                 shortcuts,
                 activeElement, keyEvent>>

NextKeys == KeyDown

InitKeysSpec ==
  /\ InitReact
  /\ InitLoop
  /\ InitApi
  /\ InitStop
  /\ InitStore
  /\ InitChat
  /\ InitLate
  /\ body = ""
  /\ apiBody = ""
  /\ shortcuts \in {<<d>> : d \in AllShortcuts}
       \cup UNION {[1..n -> ListShortcuts] : n \in 0..MaxShortcuts}
  /\ activeElement \in ActiveElements
  /\ keyEvent \in KeyEvents
  /\ keyPc = "dispatched"
  /\ invoked = <<>>
  /\ defaultPrevented = FALSE

SpecKeys == InitKeysSpec /\ [][NextKeys]_vars

(***************************************************************************)
(* Reference values the claims compare the state with.                     *)
(***************************************************************************)
\* the text reader.read() has delivered so far
Delivered == SubSeq(body, 1, readPos)

\* the state of the loop when it was entered: the locals as declared, the
\* conversation holding the user message appended by SendMessage
AtLoopStart == FreshLoop(SubSeq(messages, 1, 1))

InLoop == pc \in {"reading", "ended"}

\* the complete lines of a text, and what follows its last newline
CompleteLines(text) == LET segs == split(text) IN SubSeq(segs, 1, Len(segs) - 1)
Remainder(text) == LET segs == split(text) IN segs[Len(segs)]

\* the loop state without the console and the log of handled payloads
Core(s) ==
  [buffer |-> s.buffer, thinkingBuffer |-> s.thinkingBuffer,
   contentBuffer |-> s.contentBuffer, inThinking |-> s.inThinking,
   inAnswer |-> s.inAnswer, messages |-> s.messages,
   currentThinking |-> s.currentThinking,
   currentContent |-> s.currentContent, fileModified |-> s.fileModified]

IsMalformed(line) ==
  startsWith(line, "data: ") /\ ~JSONparse(slice(line, 6)).ok

RECURSIVE WithoutMalformed(_, _)
WithoutMalformed(ls, i) ==
  IF i > Len(ls) THEN <<>>
  ELSE (IF IsMalformed(ls[i]) THEN <<>> ELSE <<ls[i]>>)
       \o WithoutMalformed(ls, i + 1)

\* index of the first payload of `applied` that belongs to set S, 0 if none
RECURSIVE FirstIn(_, _, _)
FirstIn(seq, S, i) ==
  IF i > Len(seq) THEN 0
  ELSE IF seq[i] \in S THEN i
  ELSE FirstIn(seq, S, i + 1)

PayloadDone == "{\"type\":\"done\"}"
PayloadError == "{\"type\":\"error\",\"error\":\"boom\"}"
PayloadSentinel == "[DONE]"
PayloadMalformed == "{\"type\":\"content\",oops"

(***************************************************************************)
(* C1  Chunk-boundary invariance of the StreamingChatUI read loop: however *)
(* the transport cuts the text delivered so far into chunks, the loop is   *)
(* in the state it reaches when the same text arrives as one chunk (same   *)
(* buffer, accumulators, live bubbles, messages, handled payloads).        *)
(***************************************************************************)
C1_ChunkInvariance ==
  InLoop => LoopState = Feed(AtLoopStart, Delivered, showThinking)

\* a chunk boundary fell inside a line after a content delta was applied,
\* and an earlier line was itself cut (it is in the state although the
\* chunks that carried it were at most MaxChunk characters long)
C1_Witness ==
  /\ pc = "reading"
  /\ buffer # ""
  /\ contentBuffer # ""
  /\ readPos < Len(body)
  /\ Len(buffer) > MaxChunk

(***************************************************************************)
(* C9  Malformed-line isolation: a `data: ` line whose payload is not JSON *)
(* changes no state of the loop (it is only logged), and the lines around  *)
(* it are processed as if it were not there: the state equals the state    *)
(* reached on the delivered text with its malformed lines removed.         *)
(***************************************************************************)
C9_MalformedIsolation ==
  InLoop =>
    Core(LoopState) =
      Core(Feed(AtLoopStart,
                Join(WithoutMalformed(CompleteLines(Delivered), 1), 1)
                  \o Remainder(Delivered),
                showThinking))

\* a malformed line was handled, then content, then the done event that
\* finalized the content
C9_Witness ==
  /\ pc = "ended"
  /\ Len(applied) = 3
  /\ applied[1] = PayloadMalformed
  /\ applied[3] = PayloadDone
  /\ console = 1
  /\ Len(messages) = 2
  /\ messages[2] = Msg("assistant", "a")

(***************************************************************************)
(* Terminal events (specification SpecTerm).                               *)
(***************************************************************************)
TerminalSeen == FirstIn(applied, {PayloadDone, PayloadError}, 1) # 0

IsError(m) == m.role = "assistant" /\ startsWith(m.content, "Error: ")
IsAnswer(m) == m.role = "assistant" /\ ~startsWith(m.content, "Error: ")

\* concatenation of the content fields of the first n handled payloads whose
\* type is t
RECURSIVE Deltas(_, _, _)
Deltas(seq, t, n) ==
  IF n = 0 THEN ""
  ELSE LET p == JSONparse(seq[n])
       IN  Deltas(seq, t, n - 1)
           \o (IF p.ok /\ Get(p.obj, "type") = t
               THEN Get(p.obj, "content") ELSE "")

(***************************************************************************)
(* C3  Terminal idempotence: once a done or error event of the stream has  *)
(* been handled, no later chunk changes the accumulators, the live bubbles *)
(* or the messages.                                                        *)
(***************************************************************************)
C3_TerminalIdempotence ==
  [][(TerminalSeen /\ pc = "reading" /\ readPos' > readPos)
       => UNCHANGED <<thinkingBuffer, contentBuffer, currentThinking,
                      currentContent, messages>>]_vars

(***************************************************************************)
(* C4  Both terminal forms are accepted: when the line handled last is     *)
(* `data: [DONE]` or `data: {"type":"done"}`, the live bubbles are cleared *)
(* and the accumulated content is the last message of the conversation.    *)
(***************************************************************************)
C4_BothTerminalForms ==
  (InLoop /\ Len(applied) > 0
     /\ applied[Len(applied)] \in {PayloadSentinel, PayloadDone})
  => /\ currentThinking = ""
     /\ currentContent = ""
     /\ contentBuffer # ""
          => messages[Len(messages)] = Msg("assistant", contentBuffer)

(***************************************************************************)
(* C5  Finalization on done: a stream appends at most one assistant        *)
(* message, and its content is the concatenation, in arrival order, of the *)
(* content deltas handled before the first done event; likewise for the    *)
(* thinking message.                                                       *)
(***************************************************************************)
C5_SingleFinalization ==
  InLoop =>
    LET A == SelectSeq(messages, IsAnswer)
        T == SelectSeq(messages, LAMBDA m : m.role = "thinking")
        d == FirstIn(applied, {PayloadDone}, 1)
    IN  /\ Len(A) <= 1
        /\ Len(T) <= 1
        /\ Len(A) = 1 =>
             d # 0 /\ A[1].content = Deltas(applied, "content", d - 1)
        /\ Len(T) = 1 =>
             d # 0 /\ T[1].content = Deltas(applied, "thinking", d - 1)

(***************************************************************************)
(* C7  A typed error event is surfaced: once {"type":"error","error":m}    *)
(* has been handled, the conversation holds an inline message carrying m.  *)
(***************************************************************************)
C7_ErrorSurfaced ==
  FirstIn(applied, {PayloadError}, 1) # 0
  => \E i \in 1..Len(messages) : messages[i] = Msg("assistant", "Error: boom")

(***************************************************************************)
(* C6  Unterminated stream (specification SpecTail): at end-of-stream with *)
(* content received and no terminal event handled, the content is in the   *)
(* conversation and exactly one error is shown; with a terminal event      *)
(* handled, end-of-stream shows no error; a final line without newline is  *)
(* never handled.                                                          *)
(***************************************************************************)
RECURSIVE DataPayloads(_, _)
DataPayloads(ls, i) ==
  IF i > Len(ls) THEN <<>>
  ELSE (IF startsWith(ls[i], "data: ") THEN <<slice(ls[i], 6)>> ELSE <<>>)
       \o DataPayloads(ls, i + 1)

C6_UnterminatedStream ==
  /\ (pc = "ended" /\ ~TerminalSeen /\ contentBuffer # "")
       => /\ \E i \in 1..Len(messages) :
               messages[i] = Msg("assistant", contentBuffer)
          /\ Len(SelectSeq(messages, IsError)) = 1
  /\ (pc = "ended" /\ TerminalSeen) => Len(SelectSeq(messages, IsError)) = 0
  /\ InLoop => applied = DataPayloads(CompleteLines(Delivered), 1)

(***************************************************************************)
(* C10  At most one tool call is open (specification SpecTool): the        *)
(* conversation never holds two tool entries without a result.             *)
(***************************************************************************)
OpenToolCalls ==
  {i \in 1..Len(messages) :
     messages[i].role = "tool" /\ messages[i].toolCall.result = undefined}

C10_OneOpenToolCall == Cardinality(OpenToolCalls) <= 1

(***************************************************************************)
(* chatApi.streamMessage (specification SpecApi).                          *)
(***************************************************************************)
\* the callbacks of a body delivered as one chunk, then end-of-stream
ApiWholeCalls(text) ==
  LET r == ApiFeed(<<>>, "", text)
  IN  IF r.returned THEN r.calls
      ELSE Append(r.calls, Call("onComplete", ""))

\* the call ended in the catch block: the transport failed
TransportFailed ==
  /\ Len(calls) > 0
  /\ calls[Len(calls)].cb = "onError"
  /\ calls[Len(calls)].arg \in HttpErrors \cup {ReadError}

(***************************************************************************)
(* C2  Chunk-boundary invariance of chatApi.streamMessage: when the call   *)
(* has returned without a transport failure, the callbacks it made are     *)
(* those of the same body delivered as one chunk.                          *)
(***************************************************************************)
C2_ApiChunkInvariance ==
  (apiPc = "returned" /\ ~TransportFailed) => calls = ApiWholeCalls(apiBody)

(***************************************************************************)
(* C8  For a payload that starts with [ERROR], onError receives exactly    *)
(* the text after the 7-character tag, trimmed.                            *)
(***************************************************************************)
C8_ErrorTagMessage ==
  (Len(calls) > 0 /\ calls[Len(calls)].cb = "onError"
     /\ startsWith(apiData, "[ERROR]"))
  => calls[Len(calls)].arg = trim(slice(apiData, 7))

(***************************************************************************)
(* Tool events (specifications SpecTool and SpecToolPrior).                *)
(***************************************************************************)
\* type and tool_name of a handled payload ("" when it is not JSON)
TypeOf(payload) ==
  LET p == JSONparse(payload) IN IF p.ok THEN Get(p.obj, "type") ELSE ""
ToolNameOf(payload) ==
  LET p == JSONparse(payload) IN IF p.ok THEN Get(p.obj, "tool_name") ELSE ""

\* how many of the handled payloads have type t
CountType(seq, t) == Cardinality({i \in 1..Len(seq) : TypeOf(seq[i]) = t})

(***************************************************************************)
(* C11  Unmatched tool result: when tool_result events were handled and no *)
(* tool_call of the stream precedes them, each is reported as one error,   *)
(* the tool entry an earlier request left in messages is not resolved and  *)
(* the stream has added no tool entry.                                     *)
(***************************************************************************)
C11_UnmatchedToolResult ==
  (InLoop /\ CountType(applied, "tool_call") = 0
     /\ CountType(applied, "tool_result") >= 1)
  => /\ messages[1] = PriorTool
     /\ Len(SelectSeq(messages, IsError)) = CountType(applied, "tool_result")
     /\ \A i \in 2..Len(messages) : messages[i].role # "tool"

(***************************************************************************)
(* C12  A tool_result resolves a tool entry only when it names the tool of *)
(* that entry: every tool entry that has a result was named by one of the  *)
(* tool_result events handled.                                             *)
(***************************************************************************)
C12_ResultNamesOpenCall ==
  \A i \in 1..Len(messages) :
    (messages[i].role = "tool" /\ messages[i].toolCall.result # undefined)
    => \E j \in 1..Len(applied) :
         /\ TypeOf(applied[j]) = "tool_result"
         /\ ToolNameOf(applied[j]) = messages[i].toolCall.name

(***************************************************************************)
(* C13  Order preservation: the payloads handled are exactly the payloads  *)
(* of the complete `data: ` lines delivered, in the order of the lines,    *)
(* and the accumulators hold the deltas of those lines in that order,      *)
(* whatever the chunk boundaries.                                          *)
(***************************************************************************)
C13_OrderPreserved ==
  InLoop =>
    LET src == DataPayloads(CompleteLines(Delivered), 1)
    IN  /\ applied = src
        /\ contentBuffer = Deltas(src, "content", Len(src))
        /\ thinkingBuffer = Deltas(src, "thinking", Len(src))

\* the stream with deltas "b" then "a" has ended and was applied in that
\* order
C13_Witness ==
  /\ pc = "ended"
  /\ contentBuffer = "ba"
  /\ Len(applied) = 2

(***************************************************************************)
(* C16  The streaming indicator is released on an error event without      *)
(* waiting for the transport: while the loop is still reading after an     *)
(* error event was handled, isStreaming is false.                          *)
(***************************************************************************)
C16_ReleasedOnError ==
  (pc = "reading" /\ FirstIn(applied, {PayloadError}, 1) # 0) => ~isStreaming

(***************************************************************************)
(* C14  Lines without the prefix `data: ` and events of an unknown type    *)
(* change nothing and do not stop the decoding of the lines after them: in *)
(* the component, the loop state, the console included, is the state       *)
(* reached on the delivered text with those lines removed; in the client,  *)
(* the callbacks made on a chunk are those made on the chunk's `data: `    *)
(* lines alone.                                                            *)
(***************************************************************************)
KnownTypes == {"thinking", "content", "tool_call", "tool_result", "done",
               "error"}

IsIgnorable(line) ==
  \/ ~startsWith(line, "data: ")
  \/ LET p == JSONparse(slice(line, 6))
     IN  p.ok /\ Get(p.obj, "type") \notin KnownTypes

RECURSIVE WithoutIgnorable(_, _)
WithoutIgnorable(ls, i) ==
  IF i > Len(ls) THEN <<>>
  ELSE (IF IsIgnorable(ls[i]) THEN <<>> ELSE <<ls[i]>>)
       \o WithoutIgnorable(ls, i + 1)

RECURSIVE OnlyDataLines(_, _)
OnlyDataLines(ls, i) ==
  IF i > Len(ls) THEN <<>>
  ELSE (IF startsWith(ls[i], "data: ") THEN <<ls[i]>> ELSE <<>>)
       \o OnlyDataLines(ls, i + 1)

C14_UiIgnores ==
  InLoop =>
    LET r == Feed(AtLoopStart,
                  Join(WithoutIgnorable(CompleteLines(Delivered), 1), 1)
                    \o Remainder(Delivered),
                  showThinking)
    IN  Core(LoopState) = Core(r) /\ console = r.console

C14_ApiIgnores ==
  apiPos' > apiPos =>
    calls' = ApiLines([calls |-> calls, data |-> apiData,
                       returned |-> FALSE],
                      OnlyDataLines(
                        split(SubSeq(apiBody, apiPos + 1, apiPos')), 1),
                      1).calls

C15_OneLoop == ~(pc = "reading" /\ pc2 = "reading")

C15_AbandonedSilent ==
  (abandoned /\ readPos' > readPos)
  => UNCHANGED <<messages, currentThinking, currentContent>>

C15_SingleConsumer == []C15_OneLoop /\ [][C15_AbandonedSilent]_vars

(***************************************************************************)
(* Writes of a chat turn to the conversation store (specification          *)
(* SpecChat).                                                              *)
(***************************************************************************)
\* the messages of conversation id, none when the store has no such id
MessagesOf(convs, id) ==
  LET i == KeyIndex(convs, id, 1)
  IN  IF i = 0 THEN <<>> ELSE convs[i].messages

\* the ids of the conversations, in the order of the Map
Keys(convs) == [i \in 1..Len(convs) |-> convs[i].id]

\* how many messages of the given role the store holds
RoleCount(convs, role) ==
  Cardinality({<<i, j>> \in (1..Len(convs)) \X (1..2 * MaxTurns) :
                 /\ j <= Len(convs[i].messages)
                 /\ convs[i].messages[j].role = role})

TurnStarts == chatPc = "idle" /\ chatPc' = "awaiting"
TurnEnds == chatPc = "awaiting" /\ chatPc' = "idle"

(***************************************************************************)
(* C17  As stated: the store is written only after the response of the     *)
(* turn has completed, so the step in which handleSend starts a turn       *)
(* writes nothing to the store.                                            *)
(***************************************************************************)
C17_NoWriteBeforeResponse ==
  [][TurnStarts => UNCHANGED <<conversations, currentConversationId>>]_vars

(***************************************************************************)
(* C17  As the code has it: the step that starts a turn creates the        *)
(* conversation when there is none and appends the user's message to the   *)
(* turn's conversation, and nothing else; the reply, or the error text,    *)
(* is the only assistant message and is appended to the turn's             *)
(* conversation by the step in which the response completes or fails, and  *)
(* by no other step.                                                       *)
(***************************************************************************)
C17_StartStep ==
  TurnStarts =>
    /\ RoleCount(conversations', "assistant")
         = RoleCount(conversations, "assistant")
    /\ \A i \in 1..Len(conversations) : conversations'[i].id # convId'
         => conversations'[i] = conversations[i]
    /\ Len(conversations') \in {Len(conversations), Len(conversations) + 1}
    /\ \/ /\ KeyIndex(conversations', convId', 1) # 0
          /\ MessagesOf(conversations', convId')
               = Append(MessagesOf(conversations, convId'),
                        Msg("user", trim(chatInput)))
       \/ /\ KeyIndex(conversations', convId', 1) = 0
          /\ conversations' = conversations

C17_EndStep ==
  TurnEnds =>
    /\ Keys(conversations') = Keys(conversations)
    /\ currentConversationId' = currentConversationId
    /\ \A i \in 1..Len(conversations) : conversations[i].id # convId
         => conversations'[i] = conversations[i]
    /\ \/ /\ KeyIndex(conversations, convId, 1) # 0
          /\ \E text \in Replies \cup {"Error: " \o m : m \in SendErrors} :
               MessagesOf(conversations', convId)
                 = Append(MessagesOf(conversations, convId),
                          Msg("assistant", text))
       \/ /\ KeyIndex(conversations, convId, 1) = 0
          /\ conversations' = conversations

C17_ReplyOnlyAtEnd ==
  RoleCount(conversations', "assistant")
    > RoleCount(conversations, "assistant") => TurnEnds

C17_WritesOfATurn ==
  [][C17_StartStep /\ C17_EndStep /\ C17_ReplyOnlyAtEnd]_vars

\* a turn that created its conversation has completed: the store holds the
\* user's message followed by the reply
C17_Witness ==
  /\ chatPc = "idle"
  /\ turns = 1
  /\ KeyIndex(conversations, convId, 1) # 0
  /\ MessagesOf(conversations, convId)
       = <<Msg("user", "hello"), Msg("assistant", "ok")>>

(***************************************************************************)
(* Keyboard shortcuts (specification SpecKeys).                            *)
(***************************************************************************)
KeyPressed == keyPc = "handled"

\* the matching rule: equal keys ignoring case; shift and alt as set; ctrl
\* and meta interchangeable when one of them is requested, as set otherwise
FlagAgrees(flag, held) ==
  \/ flag = undefined
  \/ flag = "true" /\ held
  \/ flag = "false" /\ ~held

SameKeyIgnoringCase(a, b) ==
  /\ Len(a) = Len(b)
  /\ \A i \in 1..Len(a) :
       \/ charAt(a, i) = charAt(b, i)
       \/ \E n \in 1..26 :
            {charAt(a, i), charAt(b, i)}
              = {charAt(UpperCase, n), charAt(LowerCase, n)}

MatchingRule(d, e) ==
  /\ SameKeyIgnoringCase(d.key, e.key)
  /\ FlagAgrees(d.shift, e.shiftKey)
  /\ FlagAgrees(d.alt, e.altKey)
  /\ \/ /\ d.ctrl = "true" \/ d.meta = "true"
        /\ e.ctrlKey \/ e.metaKey
     \/ /\ d.ctrl # "true" /\ d.meta # "true"
        /\ FlagAgrees(d.ctrl, e.ctrlKey)
        /\ FlagAgrees(d.meta, e.metaKey)

\* the descriptors that satisfy the matching rule and are not suppressed
Eligible ==
  {i \in 1..Len(shortcuts) :
     /\ MatchingRule(shortcuts[i], keyEvent)
     /\ ~Skipped(shortcuts[i], keyEvent, activeElement)}

(***************************************************************************)
(* C18  For a keydown event at most one handler is invoked, once, and it   *)
(* is that of the first descriptor of the list that satisfies the          *)
(* matching rule and is not suppressed; none is invoked when there is no   *)
(* such descriptor.                                                        *)
(***************************************************************************)
C18_FirstMatchOnce ==
  KeyPressed =>
    /\ Len(invoked) <= 1
    /\ Eligible = {} => invoked = <<>>
    /\ Eligible # {} =>
         /\ invoked = <<CHOOSE i \in Eligible : \A j \in Eligible : i <= j>>
         /\ defaultPrevented
              = (shortcuts[invoked[1]].preventDefault # "false")

\* two descriptors of the list are eligible for the event, the first one
\* was invoked
C18_Witness ==
  /\ KeyPressed
  /\ Eligible = {1, 2}
  /\ invoked = <<1>>

(***************************************************************************)
(* C19  The matcher agrees with the matching rule for every event and      *)
(* descriptor: with one descriptor registered and nothing suppressed, its  *)
(* handler is invoked exactly when the rule says the descriptor matches    *)
(* the event.                                                              *)
(***************************************************************************)
C19_MatcherAgrees ==
  (KeyPressed /\ Len(shortcuts) = 1
     /\ ~Skipped(shortcuts[1], keyEvent, activeElement))
  => (invoked = <<1>>) = MatchingRule(shortcuts[1], keyEvent)

\* a descriptor that requests ctrl and forbids meta matched an upper-case
\* key pressed with meta alone
C19_Witness ==
  /\ KeyPressed
  /\ Len(shortcuts) = 1
  /\ shortcuts[1].key = "z" /\ keyEvent.key = "Z"
  /\ shortcuts[1].ctrl = "true" /\ shortcuts[1].meta = "false"
  /\ keyEvent.metaKey /\ ~keyEvent.ctrlKey
  /\ invoked = <<1>>

(***************************************************************************)
(* C20  Suppression: while an INPUT, a TEXTAREA or a contenteditable       *)
(* element has the focus, a handler is invoked only for a descriptor whose *)
(* key is Escape, ignoring case, or that requires ctrl or meta.            *)
(***************************************************************************)
C20_SuppressedInInput ==
  (KeyPressed /\ isInputField(activeElement))
  => \A n \in 1..Len(invoked) :
       \/ SameKeyIgnoringCase(shortcuts[invoked[n]].key, "Escape")
       \/ shortcuts[invoked[n]].ctrl = "true"
       \/ shortcuts[invoked[n]].meta = "true"

(***************************************************************************)
(* C21  UndoRedoPanel: with the panel's two shortcuts registered and the   *)
(* focus outside a text field, Ctrl+Shift+Z invokes the Redo handler (the  *)
(* second descriptor) and Ctrl+Z without Shift the Undo handler (the       *)
(* first), and never the other one.                                        *)
(***************************************************************************)
UndoRedoShortcuts ==
  <<Shortcut("z", "true", undefined, undefined, undefined, undefined),
    Shortcut("z", "true", "true", undefined, undefined, undefined)>>

C21_UndoRedoKeys ==
  (/\ KeyPressed
   /\ shortcuts = UndoRedoShortcuts
   /\ ~isInputField(activeElement)
   /\ toLowerCase(keyEvent.key) = "z"
   /\ keyEvent.ctrlKey /\ ~keyEvent.altKey /\ ~keyEvent.metaKey)
  => invoked = (IF keyEvent.shiftKey THEN <<2>> ELSE <<1>>)

(***************************************************************************)
(* C27  A call of streamMessage whose transport ends or fails makes        *)
(* exactly one terminal callback, onComplete or onError, once, and no      *)
(* onChunk after it: while the call runs no terminal callback was made,    *)
(* when it has returned the last callback and only the last is terminal,   *)
(* and the call does return.                                               *)
(***************************************************************************)
IsTerminal(call) == call.cb \in {"onComplete", "onError"}

C27_TerminalLast ==
  /\ apiPc # "returned" => \A i \in 1..Len(calls) : ~IsTerminal(calls[i])
  /\ apiPc = "returned" =>
       /\ Len(calls) >= 1
       /\ IsTerminal(calls[Len(calls)])
       /\ \A i \in 1..(Len(calls) - 1) : ~IsTerminal(calls[i])

C27_OneTerminalCallback == []C27_TerminalLast /\ <>(apiPc = "returned")

\* the [DONE] sentinel ended a call whose body went on with more text
C27_Witness ==
  /\ apiPc = "returned"
  /\ apiBody = Join(<<LineText1, LineSentinel, LineText1>>, 1)
  /\ calls = <<Call("onChunk", "Hello"), Call("onComplete", "")>>

(***************************************************************************)
(* useChatStore (specifications SpecStore and SpecChat).                   *)
(***************************************************************************)
\* the step is a call of store action op on an id the store holds
CallsOn(op) ==
  /\ lastCall'.op = op
  /\ KeyIndex(conversations, lastCall'.id, 1) # 0
  /\ <<conversations, currentConversationId, lastCall>>'
       # <<conversations, currentConversationId, lastCall>>

\* the conversations other than id, in their order
Others(convs, id) == SelectSeq(convs, LAMBDA c : c.id # id)

(***************************************************************************)
(* C23  currentConversationId is null or the id of a conversation in the   *)
(* store; deleting the current conversation selects the first remaining    *)
(* one in insertion order, or null when none remains, and deleting another *)
(* conversation leaves currentConversationId unchanged.                    *)
(***************************************************************************)
C23_CurrentIsPresent ==
  \/ currentConversationId = null
  \/ \E i \in 1..Len(conversations) :
       conversations[i].id = currentConversationId

C23_DeleteStep ==
  CallsOn("deleteConversation") =>
    LET remaining == Others(conversations, lastCall'.id) IN
    /\ conversations' = remaining
    /\ currentConversationId' =
         IF currentConversationId # lastCall'.id
         THEN currentConversationId
         ELSE IF remaining = <<>> THEN null
         ELSE remaining[1].id

C28_MissingStep ==
  (/\ lastCall'.op = "addMessage"
   /\ KeyIndex(conversations, lastCall'.id, 1) = 0
   /\ nextId' = nextId)
  => UNCHANGED <<conversations, currentConversationId, isLoading>>

C28_MissingConversation == [][C28_MissingStep]_vars

\* the reply of a turn arrived after its conversation was deleted, while
\* the store held another, empty conversation
C28_Witness ==
  /\ chatPc = "idle"
  /\ lastCall.op = "addMessage"
  /\ lastCall.role = "assistant"
  /\ lastCall.id = convId
  /\ KeyIndex(conversations, convId, 1) = 0
  /\ Len(conversations) = 1
  /\ conversations[1].messages = <<>>

(***************************************************************************)
(* C29  addMessage on a conversation of the store appends the one message  *)
(* at the end of its list and keeps the earlier messages; the other        *)
(* conversations, the order of the conversations and                       *)
(* currentConversationId are unchanged; the title changes only when the    *)
(* message is a user message and the list was empty.                       *)
(***************************************************************************)
C29_AddStep ==
  CallsOn("addMessage") =>
    LET i == CHOOSE n \in 1..Len(conversations) :
               conversations[n].id = lastCall'.id
    IN  /\ Keys(conversations') = Keys(conversations)
        /\ currentConversationId' = currentConversationId
        /\ \A j \in 1..Len(conversations) :
             j # i => conversations'[j] = conversations[j]
        /\ conversations'[i].messages
             = Append(conversations[i].messages,
                      Msg(lastCall'.role, lastCall'.content))
        /\ conversations'[i].title # conversations[i].title
             => lastCall'.role = "user" /\ conversations[i].messages = <<>>

C29_AppendsOneMessage == [][C29_AddStep]_vars

\* a second user message was added to a conversation titled by its first,
\* long one
C29_Witness ==
  /\ lastCall = StoreCall("addMessage", 1, "user", "hi")
  /\ Len(conversations) >= 1
  /\ conversations[1].id = 1
  /\ conversations[1].messages = <<Msg("user", LongText), Msg("user", "hi")>>
  /\ conversations[1].title = SubSeq(LongText, 1, 50) \o "..."

\* ---------------------------------------------------------------------
\* store/authStore.ts

MaxAuthCalls == 3

\* users and session tokens the server can answer with; null is 0
Users == {1, 2}
Tokens == {1, 2}

AuthState ==
  [user |-> user, sessionToken |-> sessionToken,
   isAuthenticated |-> isAuthenticated, isLoading |-> authIsLoading]

SetAuth(s) ==
  /\ user' = s.user
  /\ sessionToken' = s.sessionToken
  /\ isAuthenticated' = s.isAuthenticated
  /\ authIsLoading' = s.isLoading

\* one call of login, signup, logout or checkAuth: token is the session
\* token logout and checkAuth read when they were called, response is how
\* its request ended, result is what login and signup returned in success
AuthCall(op, token, at, response, result) ==
  [op |-> op, token |-> token, pc |-> at, response |-> response,
   result |-> result]

\* what the request of login or signup ends with: a body whose success is
\* true, one whose success is false, or a rejected fetch or json()
SubmitResponses ==
  [kind : {"success"}, user : Users, session_token : Tokens]
    \cup {[kind |-> k, user |-> null, session_token |-> null] :
            k \in {"failure", "throw"}}

\* what the request of checkAuth ends with
MeResponses ==
  [kind : {"ok"}, user : Users]
    \cup {[kind |-> k, user |-> null] : k \in {"notok", "throw"}}

ClearSession(s) ==
  [s EXCEPT !.user = null, !.sessionToken = null, !.isAuthenticated = FALSE]

\* a login or signup whose failure also signs the user out
submitSettled_clearing(s, data) ==
  IF data.kind = "success"
    THEN [user |-> data.user, sessionToken |-> data.session_token,
          isAuthenticated |-> TRUE, isLoading |-> FALSE]
    ELSE [ClearSession(s) EXCEPT !.isLoading = FALSE]

\* login and signup after their request settled
submitSettled(s, data) ==
  IF data.kind = "success"
    THEN [user |-> data.user, sessionToken |-> data.session_token,
          isAuthenticated |-> TRUE, isLoading |-> FALSE]
    ELSE [s EXCEPT !.isLoading = FALSE]

\* checkAuth after its request settled
checkAuthSettled(s, data) ==
  IF data.kind = "ok"
    THEN [s EXCEPT !.user = data.user, !.isAuthenticated = TRUE]
    ELSE ClearSession(s)

Awaiting(ops) ==
  {i \in 1..Len(authCalls) :
     authCalls[i].op \in ops /\ authCalls[i].pc = "awaiting"}

\* login or signup up to its await
AuthSubmit ==
  /\ Len(authCalls) < MaxAuthCalls
  /\ \E op \in {"login", "signup"} :
       authCalls' = Append(authCalls, AuthCall(op, null, "awaiting", "", ""))
  /\ authIsLoading' = TRUE
  /\ UNCHANGED <<uiVars, apiVars, stopVars, chatVars, keyVars, codeVars,
                 termVars, user, sessionToken, isAuthenticated>>

\* login or signup from its await to its return
AuthSubmitSettle ==
  /\ \E i \in Awaiting({"login", "signup"}), data \in SubmitResponses :
       /\ SetAuth(submitSettled(AuthState, data))
       /\ authCalls' =
            [authCalls EXCEPT ![i].pc = "returned",
                              ![i].response = data.kind,
                              ![i].result = IF data.kind = "success"
                                              THEN "success"
                                              ELSE "failure"]
  /\ UNCHANGED <<uiVars, apiVars, stopVars, chatVars, keyVars, codeVars,
                 termVars>>

\* logout up to its await, or to its end when there is no session token
AuthLogout ==
  /\ Len(authCalls) < MaxAuthCalls
  /\ IF sessionToken # null
       THEN /\ authCalls' =
                 Append(authCalls,
                        AuthCall("logout", sessionToken, "awaiting", "", ""))
            /\ UNCHANGED <<user, sessionToken, isAuthenticated,
                           authIsLoading>>
       ELSE /\ authCalls' =
                 Append(authCalls,
                        AuthCall("logout", null, "returned", "", ""))
            /\ SetAuth(ClearSession(AuthState))
  /\ UNCHANGED <<uiVars, apiVars, stopVars, chatVars, keyVars, codeVars,
                 termVars>>

\* logout after its request resolved or was rejected
AuthLogoutSettle ==
  /\ \E i \in Awaiting({"logout"}), kind \in {"ok", "throw"} :
       authCalls' = [authCalls EXCEPT ![i].pc = "returned",
                                      ![i].response = kind]
  /\ SetAuth(ClearSession(AuthState))
  /\ UNCHANGED <<uiVars, apiVars, stopVars, chatVars, keyVars, codeVars,
                 termVars>>

\* checkAuth up to its await, or to its return when there is no token
AuthCheck ==
  /\ Len(authCalls) < MaxAuthCalls
  /\ IF sessionToken = null
       THEN /\ authCalls' =
                 Append(authCalls,
                        AuthCall("checkAuth", null, "returned", "", ""))
            /\ SetAuth([AuthState EXCEPT !.isAuthenticated = FALSE,
                                         !.user = null])
       ELSE /\ authCalls' =
                 Append(authCalls,
                        AuthCall("checkAuth", sessionToken, "awaiting",
                                 "", ""))
            /\ UNCHANGED <<user, sessionToken, isAuthenticated,
                           authIsLoading>>
  /\ UNCHANGED <<uiVars, apiVars, stopVars, chatVars, keyVars, codeVars,
                 termVars>>

\* checkAuth from its await to its return
AuthCheckSettle ==
  /\ \E i \in Awaiting({"checkAuth"}), data \in MeResponses :
       /\ SetAuth(checkAuthSettled(AuthState, data))
       /\ authCalls' = [authCalls EXCEPT ![i].pc = "returned",
                                         ![i].response = data.kind]
  /\ UNCHANGED <<uiVars, apiVars, stopVars, chatVars, keyVars, codeVars,
                 termVars>>

AuthSetLoading ==
  /\ \E loading \in BOOLEAN : authIsLoading' = loading
  /\ authIsLoading' # authIsLoading
  /\ UNCHANGED <<uiVars, apiVars, stopVars, chatVars, keyVars, codeVars,
                 termVars, user, sessionToken, isAuthenticated, authCalls>>

NextAuth ==
  \/ AuthSubmit
  \/ AuthSubmitSettle
  \/ AuthLogout
  \/ AuthLogoutSettle
  \/ AuthCheck
  \/ AuthCheckSettle
  \/ AuthSetLoading

InitAuthSpec ==
  /\ InitReact
  /\ InitLoop
  /\ InitApi
  /\ InitOther
  /\ body = ""
  /\ apiBody = ""

SpecAuth == InitAuthSpec /\ [][NextAuth]_vars

\* C22: whenever isAuthenticated is true the store holds a session token,
\* whatever the order in which the calls of login, signup, logout and
\* checkAuth and their responses are interleaved
C22_AuthenticatedHasToken == isAuthenticated => sessionToken # null

\* the calls of login and signup whose request did not succeed
Failed(calls_) ==
  {i \in 1..Len(calls_) :
     /\ calls_[i].op \in {"login", "signup"}
     /\ calls_[i].response \in {"failure", "throw"}}

C30_FailStep ==
  \A i \in 1..Len(authCalls') :
    /\ authCalls'[i].op \in {"login", "signup"}
    /\ i > Len(authCalls) \/ authCalls[i] # authCalls'[i]
    /\ i > Len(authCalls) \/ authCalls'[i].response \in {"failure", "throw"}
    => /\ user' = user
       /\ sessionToken' = sessionToken
       /\ isAuthenticated' = isAuthenticated
       /\ i <= Len(authCalls)
            => /\ authCalls'[i].pc = "returned"
               /\ authCalls'[i].result = "failure"
               /\ authIsLoading' = FALSE

\* C30: neither step of a login or signup that does not succeed, the one up
\* to its request and the one after a response with success false or a
\* rejected request, changes user, sessionToken or isAuthenticated; the
\* second one returns success false and leaves isLoading false
C30_FailureKeepsSession == [][C30_FailStep]_vars

\* a login or signup failed while a user was signed in, and the user is
\* still signed in with the same token
C30_Witness ==
  /\ Failed(authCalls) # {}
  /\ isAuthenticated
  /\ sessionToken # null
  /\ user # null
  /\ ~authIsLoading

\* ---------------------------------------------------------------------
\* store/codeStore.ts and CodeEditor's handleCloseFile

MaxRefreshes == 2

\* file paths and project paths, numbered; null is 0.  The file tree of a
\* project is written as the project it was fetched for.
Paths == {1, 2, 3}
Projects == {1, 2}
FileContents == {"", "x"}

CodeState ==
  [openFiles |-> openFiles, currentFile |-> currentFile,
   currentProject |-> currentProject, fileTree |-> fileTree]

SetCode(s) ==
  /\ openFiles' = s.openFiles
  /\ currentFile' = s.currentFile
  /\ currentProject' = s.currentProject
  /\ fileTree' = s.fileTree

CodeCall(op, path) == [op |-> op, path |-> path]

\* Array.from(map.keys()): the keys in insertion order
keys(map) == [i \in 1..Len(map) |-> map[i].path]

\* map.has(path)
has(map, path) == \E i \in 1..Len(map) : map[i].path = path

\* map.set(path, content): an existing key keeps its place
mapSet(map, path, content) ==
  IF has(map, path)
    THEN [i \in 1..Len(map) |->
            IF map[i].path = path
              THEN [path |-> path, content |-> content]
              ELSE map[i]]
    ELSE Append(map, [path |-> path, content |-> content])

\* map.delete(path)
mapDelete(map, path) == SelectSeq(map, LAMBDA e : e.path # path)

addOpenFile(s, path, content) ==
  [s EXCEPT !.openFiles = mapSet(s.openFiles, path, content),
            !.currentFile = path]

updateFileContent(s, path, content) ==
  [s EXCEPT !.openFiles = mapSet(s.openFiles, path, content)]

\* a closeFile that keeps the current file whatever is closed
closeFile_stale(s, path) ==
  [s EXCEPT !.openFiles = mapDelete(s.openFiles, path)]

closeFile(s, path) ==
  LET newFiles == mapDelete(s.openFiles, path)
      remainingFiles == keys(newFiles)
  IN  [s EXCEPT !.openFiles = newFiles,
                !.currentFile =
                   IF s.currentFile = path
                     THEN IF Len(remainingFiles) > 0
                            THEN remainingFiles[1]
                            ELSE null
                     ELSE s.currentFile]

setCurrentFile(s, path) == [s EXCEPT !.currentFile = path]

\* CodeEditor.handleCloseFile: openFiles and currentFile are the values of
\* the render the click happened in, seen is the store at that render
handleCloseFile(s, seen, path) ==
  LET closed == closeFile(s, path)
      remainingFiles ==
        SelectSeq(keys(seen.openFiles), LAMBDA q : q # path)
  IN  IF seen.currentFile = path
        THEN setCurrentFile(closed,
                            IF Len(remainingFiles) > 0
                              THEN remainingFiles[1]
                              ELSE null)
        ELSE closed

clearAll(s) ==
  [openFiles |-> <<>>, currentFile |-> null, currentProject |-> null,
   fileTree |-> null]

OpenPaths == {openFiles[i].path : i \in 1..Len(openFiles)}

AddOpenFile ==
  /\ \E path \in Paths, content \in FileContents :
       /\ SetCode(addOpenFile(CodeState, path, content))
       /\ codeCall' = CodeCall("addOpenFile", path)
  /\ UNCHANGED <<uiVars, apiVars, stopVars, chatVars, keyVars, authVars,
                 termVars, refreshes>>

UpdateFileContent ==
  /\ \E path \in OpenPaths, content \in FileContents :
       /\ SetCode(updateFileContent(CodeState, path, content))
       /\ codeCall' = CodeCall("updateFileContent", path)
  /\ UNCHANGED <<uiVars, apiVars, stopVars, chatVars, keyVars, authVars,
                 termVars, refreshes>>

CloseFile ==
  /\ \E path \in Paths :
       /\ SetCode(closeFile(CodeState, path))
       /\ codeCall' = CodeCall("closeFile", path)
  /\ UNCHANGED <<uiVars, apiVars, stopVars, chatVars, keyVars, authVars,
                 termVars, refreshes>>

\* the close button of a tab
HandleCloseFile ==
  /\ \E path \in OpenPaths :
       /\ SetCode(handleCloseFile(CodeState, CodeState, path))
       /\ codeCall' = CodeCall("handleCloseFile", path)
  /\ UNCHANGED <<uiVars, apiVars, stopVars, chatVars, keyVars, authVars,
                 termVars, refreshes>>

\* a click on a tab, or a deselection
SetCurrentFile ==
  /\ \E path \in OpenPaths \cup {null} :
       /\ SetCode(setCurrentFile(CodeState, path))
       /\ codeCall' = CodeCall("setCurrentFile", path)
  /\ UNCHANGED <<uiVars, apiVars, stopVars, chatVars, keyVars, authVars,
                 termVars, refreshes>>

ClearAll ==
  /\ SetCode(clearAll(CodeState))
  /\ codeCall' = CodeCall("clearAll", null)
  /\ UNCHANGED <<uiVars, apiVars, stopVars, chatVars, keyVars, authVars,
                 termVars, refreshes>>

SetCurrentProject ==
  /\ \E project \in Projects \cup {null} :
       /\ project # currentProject
       /\ currentProject' = project
  /\ UNCHANGED <<uiVars, apiVars, stopVars, chatVars, keyVars, authVars,
                 termVars, openFiles, currentFile, fileTree, refreshes,
                 codeCall>>

SetFileTree ==
  /\ \E tree \in Projects \cup {null} :
       /\ tree # fileTree
       /\ fileTree' = tree
  /\ UNCHANGED <<uiVars, apiVars, stopVars, chatVars, keyVars, authVars,
                 termVars, openFiles, currentFile, currentProject,
                 refreshes, codeCall>>

\* one call of refreshFileTree: the project it read when it was called
Refresh(project, at, response) ==
  [project |-> project, pc |-> at, response |-> response]

\* refreshFileTree up to its await, or to its return without a project
RefreshFileTree ==
  /\ Len(refreshes) < MaxRefreshes
  /\ refreshes' =
       Append(refreshes,
              IF currentProject = null
                THEN Refresh(null, "returned", "")
                ELSE Refresh(currentProject, "awaiting", ""))
  /\ UNCHANGED <<uiVars, apiVars, stopVars, chatVars, keyVars, authVars,
                 termVars, openFiles, currentFile, currentProject,
                 fileTree, codeCall>>

\* refreshFileTree from its await to its end: the response is ok and its
\* body is the tree of the project asked for, or it is not ok, or fetch
\* or json() was rejected
RefreshSettle ==
  /\ \E i \in 1..Len(refreshes), response \in {"ok", "notok", "throw"} :
       /\ refreshes[i].pc = "awaiting"
       /\ refreshes' = [refreshes EXCEPT ![i].pc = "returned",
                                         ![i].response = response]
       /\ fileTree' = IF response = "ok"
                        THEN refreshes[i].project
                        ELSE fileTree
  /\ UNCHANGED <<uiVars, apiVars, stopVars, chatVars, keyVars, authVars,
                 termVars, openFiles, currentFile, currentProject,
                 codeCall>>

InitCodeSpec ==
  /\ InitReact
  /\ InitLoop
  /\ InitApi
  /\ InitOther
  /\ body = ""
  /\ apiBody = ""

\* the calls on the open files
NextFiles ==
  \/ AddOpenFile
  \/ UpdateFileContent
  \/ CloseFile
  \/ HandleCloseFile
  \/ SetCurrentFile
  \/ ClearAll

SpecFiles == InitCodeSpec /\ [][NextFiles]_vars

\* the calls on the project and its file tree
NextTree ==
  \/ SetCurrentProject
  \/ SetFileTree
  \/ RefreshFileTree
  \/ RefreshSettle
  \/ ClearAll

SpecTree == InitCodeSpec /\ [][NextTree]_vars

\* C24 (the state): the current file is null or one of the open files
C24_CurrentIsOpen == currentFile = null \/ currentFile \in OpenPaths

C24_CloseStep ==
  codeCall' # codeCall /\ codeCall'.op \in {"closeFile", "handleCloseFile"}
  => LET path == codeCall'.path
         remaining == SelectSeq(keys(openFiles), LAMBDA q : q # path)
     IN  /\ keys(openFiles') = remaining
         /\ currentFile' =
              IF currentFile # path THEN currentFile
              ELSE IF remaining = <<>> THEN null
              ELSE remaining[1]

\* C24: after every call of addOpenFile, updateFileContent, closeFile,
\* clearAll, of setCurrentFile with an open path or null, and of the
\* editor's close button, the current file is null or an open file; a
\* close of the current file makes the first of the remaining open files,
\* in the order they were opened, current, or null when none remains, and
\* a close of another file leaves the current file as it was
C24_CurrentFile == []C24_CurrentIsOpen /\ [][C24_CloseStep]_vars

\* the current file was closed while two others were open and the one
\* opened first became current, although it is not the one opened last
C24_Witness ==
  /\ codeCall.op \in {"closeFile", "handleCloseFile"}
  /\ Len(openFiles) = 2
  /\ codeCall.path \notin OpenPaths
  /\ currentFile = openFiles[1].path
  /\ openFiles[1].path > openFiles[2].path

C25_TreeStep ==
  /\ Len(refreshes') > Len(refreshes) => fileTree' = fileTree
  /\ \A i \in 1..Len(refreshes) :
       refreshes[i].pc = "awaiting" /\ refreshes'[i].pc = "returned"
       => fileTree' =
            IF /\ refreshes'[i].response = "ok"
               /\ currentProject = refreshes[i].project
              THEN refreshes[i].project
              ELSE fileTree

\* C25: a call of refreshFileTree stores the tree it fetched only when its
\* response is ok and the current project is still the one it asked for;
\* a call made without a current project, or whose request fails, leaves
\* fileTree as it was
C25_TreeOfCurrentProject == [][C25_TreeStep]_vars

\* ---------------------------------------------------------------------
\* components/Terminal.tsx

MaxSockets == 2
MaxOutput == 2

ProjectPaths == {"/p", "/q"}
TerminalInputs == {"", " ", "ls"}

\* a WebSocket the effect created; wsRef.current is the last one
Socket(projectPath, readyState) ==
  [projectPath |-> projectPath, readyState |-> readyState]

\* an element of output: the socket whose handler appended it, 0 for
\* sendCommand, and what was appended
Out(socket, text) == [socket |-> socket, text |-> text]

\* the effect's cleanup for the socket it created
cleanup(ws) ==
  IF ws.readyState = "OPEN" THEN [ws EXCEPT !.readyState = "CLOSING"] ELSE ws

\* the effect's first run
Mount ==
  /\ sockets = <<>>
  /\ \E projectPath \in ProjectPaths :
       sockets' = <<Socket(projectPath, "CONNECTING")>>
  /\ UNCHANGED <<uiVars, apiVars, stopVars, chatVars, keyVars, authVars,
                 codeVars, isConnected, output, terminalInput>>

\* a render with another projectPath: the cleanup of the last run, then
\* the effect again
ChangeProjectPath ==
  /\ sockets # <<>>
  /\ Len(sockets) < MaxSockets
  /\ \E projectPath \in ProjectPaths :
       /\ projectPath # sockets[Len(sockets)].projectPath
       /\ sockets' =
            Append([sockets EXCEPT ![Len(sockets)] = cleanup(@)],
                   Socket(projectPath, "CONNECTING"))
  /\ UNCHANGED <<uiVars, apiVars, stopVars, chatVars, keyVars, authVars,
                 codeVars, isConnected, output, terminalInput>>

\* ws.onopen
WsOpen ==
  /\ \E i \in 1..Len(sockets) :
       /\ sockets[i].readyState = "CONNECTING"
       /\ sockets' = [sockets EXCEPT ![i].readyState = "OPEN"]
  /\ isConnected' = TRUE
  /\ UNCHANGED <<uiVars, apiVars, stopVars, chatVars, keyVars, authVars,
                 codeVars, output, terminalInput>>

\* ws.onmessage; a socket delivers what it received until it is closed
WsMessage ==
  /\ Len(output) < MaxOutput
  /\ \E i \in 1..Len(sockets) :
       /\ sockets[i].readyState \in {"OPEN", "CLOSING"}
       /\ output' = Append(output, Out(i, "data"))
  /\ UNCHANGED <<uiVars, apiVars, stopVars, chatVars, keyVars, authVars,
                 codeVars, sockets, isConnected, terminalInput>>

\* a connection that fails: ws.onerror, then ws.onclose
WsFail ==
  /\ \E i \in 1..Len(sockets) :
       /\ sockets[i].readyState \in {"CONNECTING", "OPEN", "CLOSING"}
       /\ sockets' = [sockets EXCEPT ![i].readyState = "CLOSED"]
       /\ output' = output \o <<Out(i, "error"), Out(i, "closed")>>
  /\ isConnected' = FALSE
  /\ UNCHANGED <<uiVars, apiVars, stopVars, chatVars, keyVars, authVars,
                 codeVars, terminalInput>>

\* ws.onclose after the server's or the cleanup's close
WsClose ==
  /\ \E i \in 1..Len(sockets) :
       /\ sockets[i].readyState \in {"OPEN", "CLOSING"}
       /\ sockets' = [sockets EXCEPT ![i].readyState = "CLOSED"]
       /\ output' = Append(output, Out(i, "closed"))
  /\ isConnected' = FALSE
  /\ UNCHANGED <<uiVars, apiVars, stopVars, chatVars, keyVars, authVars,
                 codeVars, terminalInput>>

TerminalSetInput ==
  /\ sockets # <<>>
  /\ \E value \in TerminalInputs :
       /\ value # terminalInput
       /\ terminalInput' = value
  /\ UNCHANGED <<uiVars, apiVars, stopVars, chatVars, keyVars, authVars,
                 codeVars, sockets, isConnected, output>>

\* sendCommand: send() throws on a socket that is still connecting, and
\* the input is then not cleared
sendCommand ==
  /\ trim(terminalInput) # ""
  /\ sockets # <<>>
  /\ isConnected
  /\ Len(output) < MaxOutput
  /\ output' = Append(output, Out(0, "command"))
  /\ terminalInput' =
       IF sockets[Len(sockets)].readyState = "CONNECTING"
         THEN terminalInput
         ELSE ""
  /\ UNCHANGED <<uiVars, apiVars, stopVars, chatVars, keyVars, authVars,
                 codeVars, sockets, isConnected>>

clearTerminal ==
  /\ output # <<>>
  /\ output' = <<>>
  /\ UNCHANGED <<uiVars, apiVars, stopVars, chatVars, keyVars, authVars,
                 codeVars, sockets, isConnected, terminalInput>>

NextTerminal ==
  \/ Mount
  \/ ChangeProjectPath
  \/ WsOpen
  \/ WsMessage
  \/ WsFail
  \/ WsClose
  \/ TerminalSetInput
  \/ sendCommand
  \/ clearTerminal

InitTerminalSpec ==
  /\ InitReact
  /\ InitLoop
  /\ InitApi
  /\ InitOther
  /\ body = ""
  /\ apiBody = ""

SpecTerminal == InitTerminalSpec /\ [][NextTerminal]_vars

\* C26 (the state): isConnected is true exactly when wsRef.current is open
C26_ConnectedIffCurrentOpen ==
  sockets # <<>>
  => (isConnected <=> sockets[Len(sockets)].readyState = "OPEN")

\* C26 (the steps): an event of a socket that is not wsRef.current changes
\* neither isConnected nor output
C26_SupersededStep ==
  \A i \in 1..Len(sockets) :
    /\ i < Len(sockets)
    /\ Len(sockets') = Len(sockets)
    /\ \/ sockets'[i] # sockets[i]
       \/ /\ Len(output') > Len(output)
          /\ output'[Len(output')].socket = i
    => isConnected' = isConnected /\ output' = output

\* C26 (the sockets): a socket that is not wsRef.current is closing or
\* closed
C26_SupersededClosed ==
  \A i \in 1..Len(sockets) :
    i < Len(sockets) => sockets[i].readyState \in {"CLOSING", "CLOSED"}

\* C26: across a change of projectPath, isConnected is true exactly when
\* the socket of the current projectPath is open, a socket of an earlier
\* projectPath is closed by the change, and its events change neither
\* isConnected nor output
C26_CurrentSocketOnly ==
  /\ []C26_ConnectedIffCurrentOpen
  /\ []C26_SupersededClosed
  /\ [][C26_SupersededStep]_vars

====
